---- MODULE Spec2Model ----
(***************************************************************************)
(* A model of the crawl engine of legal_spider: the URL frontier           *)
(* (spider/spider.py, URLQueue), the per-domain token bucket               *)
(* (spider/http_client.py, TokenBucket / DomainRateLimiter), the fetch     *)
(* pipeline (HTTPClient), the safety gate (spider/safety.py) and the       *)
(* crawl loop (LegalSpider.crawl).                                         *)
(*                                                                         *)
(* Specifications:                                                         *)
(*   SpecFrontier  any sequence of add_url / get_next_url calls on the     *)
(*                 URLQueue that LegalSpider.__init__ constructs           *)
(*   SpecBucket    any sequence of consume / wait_time calls on one        *)
(*                 TokenBucket while the clock moves forward               *)
(*   SpecLimiter   any sequence of wait_if_needed calls on the             *)
(*                 DomainRateLimiter                                       *)
(*   SpecClient    one fetch call on a new HTTPClient                      *)
(*   SpecSafety    any sequence of pre_crawl_check calls on the            *)
(*                 SafetyManager                                           *)
(*   Spec          one crawl session of LegalSpider.crawl                  *)
(*   SpecNormalize one normalize_url call on a URL string                  *)
(*   SpecBucketThreads   threads calling consume / wait_time on one        *)
(*                 TokenBucket, step by step                               *)
(*   SpecLimiterThreads  threads calling wait_if_needed on one             *)
(*                 DomainRateLimiter, step by step                         *)
(*   SpecWaitLoop  one thread calling wait_if_needed, every step of a      *)
(*                 call followed by the next                               *)
(*   SpecRobotsThreads   threads calling can_fetch on one RobotsChecker,   *)
(*                 step by step                                            *)
(*   SpecRetry     one _fetch_with_retry call over every class of status,  *)
(*                 Retry-After header and exception                        *)
(*   SpecLoop      the crawl loop over deeper sessions, what happens to a  *)
(*                 page left open, every step followed by the next         *)
(*   SpecRateThreads     threads calling wait_if_needed often enough to    *)
(*                 use up a burst                                          *)
(***************************************************************************)
EXTENDS Integers, Sequences, FiniteSets, TLC

(***************************************************************************)
(* Bounds of the model.                                                    *)
(***************************************************************************)
MaxPages == 2       \* config.max_pages ranges over 1..MaxPages
MaxDepth == 1       \* config.max_depth ranges over 0..MaxDepth
MaxTime == 8        \* the clock stops advancing at MaxTime ticks
MaxConsume == 2     \* consume(n) and wait_time(n) are called with n in 1..MaxConsume
TicksPerSecond == 2 \* resolution of the clock: ticks in one second
MaxRetries == 1     \* config.max_retries
MaxLinks == 2       \* a page holds at most MaxLinks distinct in-domain links

None == [none |-> TRUE]      \* Python's None, where a URL or a URLItem may stand

Min(a, b) == IF a <= b THEN a ELSE b
Range(s) == {s[i] : i \in 1..Len(s)}

VARIABLES
    spec_kind,      \* which of the specifications this behaviour belongs to
    max_pages,      \* SpiderConfig.max_pages
    max_depth,      \* SpiderConfig.max_depth
    max_retries,    \* SpiderConfig.max_retries
    url_queue,      \* LegalSpider.url_queue : URLQueue
    accepted,       \* history: normalized URLs add_url accepted, in order
    returned,       \* history: URLItems get_next_url returned, in order
    visited_adds,   \* history: number of visited.add(u) calls, per URL
    last_call,      \* history: the last frontier call, its result and pre-state
                    \* (SpecNormalize: the normalize_url call)
    now,            \* time.time(), in ticks
    domain_buckets, \* DomainRateLimiter.domain_buckets : domain -> TokenBucket
    base,           \* history: [tokens, time] after the last successful consume
    last_bucket_call, \* history: the last TokenBucket call, its result and pre-state
    pc,             \* LegalSpider.crawl: where the crawl loop stands
    url_item,       \* crawl: the URLItem of the current iteration
    response,       \* _crawl_single_page: the HTTPResponse fetch returned
    crawl_results,  \* LegalSpider.crawl_results : url -> record
    stats,          \* LegalSpider.stats
    safety,         \* SafetyManager: stats, robots_cache, fetch_errors
    http_stats,     \* HTTPClient.stats
    checked,        \* history: pre_crawl_check call of the current iteration
    fetch_calls,    \* history: the HTTPClient.fetch calls, each with `checked`
    blocked,        \* history: (url, depth) pairs pre_crawl_check refused
    net,            \* history: counts of wait_if_needed calls and requests sent
    last_fetch,     \* history: the last HTTPClient.fetch call and its event log
    last_check,     \* history: the last pre_crawl_check call and its pre-state
    robots_requests, \* history: robots.txt requests sent, per domain
    report,         \* what crawl() returned (None: nothing yet)
    heap,           \* threads: the TokenBucket objects made, each with its lock
    bucket_ids,     \* threads: DomainRateLimiter.domain_buckets, domain -> object
    threads         \* threads: where each thread stands in its call

config_vars == <<spec_kind, max_pages, max_depth, max_retries>>
frontier_vars == <<url_queue, accepted, returned, visited_adds, last_call>>
frontier_hist == <<accepted, returned, visited_adds, last_call>>
bucket_vars == <<now, domain_buckets, base, last_bucket_call>>
bucket_hist == <<base, last_bucket_call>>
crawl_vars == <<pc, url_item, response, crawl_results, stats, safety,
                http_stats, checked, fetch_calls, blocked, net, last_fetch,
                last_check, robots_requests, report>>
safety_hist == <<last_check, robots_requests>>
thread_vars == <<heap, bucket_ids, threads>>
vars == <<config_vars, frontier_vars, bucket_vars, crawl_vars, thread_vars>>

(***************************************************************************)
(* URLs.  A URL string is held as the six components urlparse splits it    *)
(* into, each as written in the string.                                    *)
(***************************************************************************)
Schemes   == {"https"}
Netlocs   == {"site.com", "Site.COM"}
Paths     == {"", "/", "/a", "/b"}
Fragments == {"", "top"}

URL(s, n, p, f) ==
    [scheme |-> s, netloc |-> n, path |-> p, params |-> "", query |-> "",
     fragment |-> f]

\* The URL strings callers pass to add_url.
RawURLs == {URL(s, n, p, f) : s \in Schemes, n \in Netlocs, p \in Paths,
                              f \in Fragments}

\* str.lower() on the strings of the model.
Lower(s) ==
    CASE s = "HTTPS"    -> "https"
      [] s = "Site.COM" -> "site.com"
      [] s = "A"        -> "a"
      [] OTHER          -> s

\* utils.normalize_url: lower-case scheme and netloc, default path "/",
\* params and query kept, fragment removed.
normalize_url(url) ==
    [scheme   |-> Lower(url.scheme),
     netloc   |-> Lower(url.netloc),
     path     |-> IF url.path = "" THEN "/" ELSE url.path,
     params   |-> url.params,
     query    |-> url.query,
     fragment |-> ""]

NormURLs == {normalize_url(u) : u \in RawURLs}

(***************************************************************************)
(* URL strings.  normalize_url takes a string apart with urlparse and puts *)
(* the parts together with urlunparse.  To follow both, a URL string is    *)
(* held here as the sequence of its pieces: the word "http", the letter    *)
(* "A" (lower case "a") and the delimiters ":", "/", "?" and "#".          *)
(***************************************************************************)
MaxLen == 6         \* a URL string has at most MaxLen pieces

UrlPieces == {"http", "A", ":", "/", "?", "#"}
URLStrings == UNION {[1..n -> UrlPieces] : n \in 0..MaxLen}

\* urllib.parse.scheme_chars, of the pieces
SchemeChars == {"http", "A", "a"}
\* urllib.parse.uses_netloc, of the schemes that can be written
UsesNetloc == {<<>>, <<"http">>}

\* str.lower() on a string of pieces
LowerStr(s) == [i \in 1..Len(s) |-> Lower(s[i])]

\* s.find: the first position from start on that holds one of cs, Len(s) + 1
\* if there is none
Find(s, cs, start) ==
    LET hits == {i \in start..Len(s) : s[i] \in cs} IN
    IF hits = {} THEN Len(s) + 1
    ELSE CHOOSE i \in hits : \A j \in hits : i <= j

\* urllib.parse.urlparse: the six components, each a string of pieces
urlparse(s) ==
    LET i == Find(s, {":"}, 1)
        has_scheme == /\ 1 < i /\ i <= Len(s)
                      /\ \A j \in 1..(i - 1) : s[j] \in SchemeChars
        scheme == IF has_scheme THEN LowerStr(SubSeq(s, 1, i - 1)) ELSE <<>>
        url1 == IF has_scheme THEN SubSeq(s, i + 1, Len(s)) ELSE s
        has_netloc == Len(url1) >= 2 /\ url1[1] = "/" /\ url1[2] = "/"
        delim == Find(url1, {"/", "?", "#"}, 3)
        netloc == IF has_netloc THEN SubSeq(url1, 3, delim - 1) ELSE <<>>
        url2 == IF has_netloc THEN SubSeq(url1, delim, Len(url1)) ELSE url1
        h == Find(url2, {"#"}, 1)
        fragment == SubSeq(url2, h + 1, Len(url2))
        url3 == SubSeq(url2, 1, h - 1)
        q == Find(url3, {"?"}, 1)
    IN [scheme |-> scheme, netloc |-> netloc, path |-> SubSeq(url3, 1, q - 1),
        params |-> <<>>, query |-> SubSeq(url3, q + 1, Len(url3)),
        fragment |-> fragment]

\* urllib.parse.urlunparse (urlunsplit): the string of six components
urlunparse(p) ==
    LET url0 == IF p.params # <<>> THEN p.path \o <<";">> \o p.params
                ELSE p.path
        url1 == IF p.netloc # <<>>
                   \/ (p.scheme # <<>> /\ p.scheme \in UsesNetloc
                       /\ SubSeq(url0, 1, Min(2, Len(url0))) # <<"/", "/">>)
                THEN <<"/", "/">> \o p.netloc
                     \o (IF url0 # <<>> /\ url0[1] # "/" THEN <<"/">>
                         ELSE <<>>)
                     \o url0
                ELSE url0
        url2 == IF p.scheme # <<>> THEN p.scheme \o <<":">> \o url1 ELSE url1
        url3 == IF p.query # <<>> THEN url2 \o <<"?">> \o p.query ELSE url2
    IN IF p.fragment # <<>> THEN url3 \o <<"#">> \o p.fragment ELSE url3

\* utils.normalize_url on a URL string: urlparse, the six components as
\* normalize_url rewrites them, urlunparse.
normalize_url_string(s) ==
    LET parsed == urlparse(s) IN
    urlunparse([scheme   |-> LowerStr(parsed.scheme),
                netloc   |-> LowerStr(parsed.netloc),
                path     |-> IF parsed.path = <<>> THEN <<"/">>
                             ELSE parsed.path,
                params   |-> parsed.params,
                query    |-> parsed.query,
                fragment |-> <<>>])

(***************************************************************************)
(* URLQueue (spider.py).  A frontier is the record                         *)
(*   [queue, visited, in_queue, max_size];                                 *)
(* a URLItem is [url, depth, parent_url, priority] (discovered_at, a       *)
(* timestamp nothing reads, is left out).                                  *)
(***************************************************************************)
URLItem(url, depth, parent, priority) ==
    [url |-> url, depth |-> depth, parent_url |-> parent, priority |-> priority]

\* URLQueue.__init__
NewURLQueue(max_size) ==
    [queue |-> <<>>, visited |-> {}, in_queue |-> {}, max_size |-> max_size]

\* add_url with the visited test dropped.
add_url_no_visited(q, url, depth, parent, priority) ==
    LET normalized_url == normalize_url(url) IN
    IF normalized_url \in q.in_queue \/ Len(q.queue) >= q.max_size
    THEN [q |-> q, ok |-> FALSE]
    ELSE [q  |-> [q EXCEPT
                    !.queue = Append(@, URLItem(normalized_url, depth, parent,
                                                priority)),
                    !.in_queue = @ \cup {normalized_url}],
          ok |-> TRUE]

\* add_url that honours priority: the item goes before the first queued
\* item of a larger priority value.
add_url_by_priority(q, url, depth, parent, priority) ==
    LET normalized_url == normalize_url(url)
        item == URLItem(normalized_url, depth, parent, priority)
        before == {i \in 1..Len(q.queue) :
                     \A j \in 1..i : q.queue[j].priority <= priority}
        k == Cardinality(before)
    IN
    IF normalized_url \in q.visited \/ normalized_url \in q.in_queue
       \/ Len(q.queue) >= q.max_size
    THEN [q |-> q, ok |-> FALSE]
    ELSE [q  |-> [q EXCEPT
                    !.queue = SubSeq(@, 1, k) \o <<item>> \o
                              SubSeq(@, k + 1, Len(@)),
                    !.in_queue = @ \cup {normalized_url}],
          ok |-> TRUE]

\* add_url with the size test off by one (> for >=).
add_url_size_off_by_one(q, url, depth, parent, priority) ==
    LET normalized_url == normalize_url(url) IN
    IF normalized_url \in q.visited \/ normalized_url \in q.in_queue
       \/ Len(q.queue) > q.max_size
    THEN [q |-> q, ok |-> FALSE]
    ELSE [q  |-> [q EXCEPT
                    !.queue = Append(@, URLItem(normalized_url, depth, parent,
                                                priority)),
                    !.in_queue = @ \cup {normalized_url}],
          ok |-> TRUE]

\* add_url that remembers in in_queue a URL it refuses.
add_url_marks_rejected(q, url, depth, parent, priority) ==
    LET normalized_url == normalize_url(url) IN
    IF normalized_url \in q.visited \/ normalized_url \in q.in_queue
    THEN [q |-> q, ok |-> FALSE]
    ELSE IF Len(q.queue) >= q.max_size
    THEN [q |-> [q EXCEPT !.in_queue = @ \cup {normalized_url}], ok |-> FALSE]
    ELSE [q  |-> [q EXCEPT
                    !.queue = Append(@, URLItem(normalized_url, depth, parent,
                                                priority)),
                    !.in_queue = @ \cup {normalized_url}],
          ok |-> TRUE]

\* add_url that puts the item at the head of the queue (appendleft).
add_url_front(q, url, depth, parent, priority) ==
    LET normalized_url == normalize_url(url) IN
    IF normalized_url \in q.visited \/ normalized_url \in q.in_queue
    THEN [q |-> q, ok |-> FALSE]
    ELSE IF Len(q.queue) >= q.max_size
    THEN [q |-> q, ok |-> FALSE]
    ELSE [q  |-> [q EXCEPT
                    !.queue = <<URLItem(normalized_url, depth, parent,
                                        priority)>> \o @,
                    !.in_queue = @ \cup {normalized_url}],
          ok |-> TRUE]

\* URLQueue.add_url: the pair [q, ok] of the frontier after the call and
\* the value returned.
add_url(q, url, depth, parent, priority) ==
    LET normalized_url == normalize_url(url) IN
    IF normalized_url \in q.visited \/ normalized_url \in q.in_queue
    THEN [q |-> q, ok |-> FALSE]
    ELSE IF Len(q.queue) >= q.max_size
    THEN [q |-> q, ok |-> FALSE]
    ELSE [q  |-> [q EXCEPT
                    !.queue = Append(@, URLItem(normalized_url, depth, parent,
                                                priority)),
                    !.in_queue = @ \cup {normalized_url}],
          ok |-> TRUE]

\* get_next_url that forgets in_queue.remove.
get_next_url_keeps_in_queue(q) ==
    LET head_item == Head(q.queue) IN
    [q    |-> [q EXCEPT !.queue = Tail(@),
                        !.visited = @ \cup {head_item.url}],
     item |-> head_item]

\* get_next_url that leaves the item in the queue.
get_next_url_peek(q) ==
    LET head_item == Head(q.queue) IN
    [q    |-> [q EXCEPT !.visited = @ \cup {head_item.url}],
     item |-> head_item]

\* URLQueue.get_next_url on a non-empty queue: [q, item].
get_next_url(q) ==
    LET head_item == Head(q.queue) IN
    [q    |-> [q EXCEPT !.queue = Tail(@),
                        !.in_queue = @ \ {head_item.url},
                        !.visited = @ \cup {head_item.url}],
     item |-> head_item]

is_empty(q) == Len(q.queue) = 0

(***************************************************************************)
(* TokenBucket (http_client.py).  Time is counted in ticks, TicksPerSecond *)
(* to the second, and tokens in units of 1/TicksPerSecond of a token, so   *)
(* that elapsed * refill_rate is exact: with refill_rate in tokens per     *)
(* second, e ticks add e * refill_rate units.  A bucket is the record      *)
(*   [capacity, tokens, refill_rate, last_refill, token]                   *)
(* with capacity and tokens in units, and token the units that make one    *)
(* token: TicksPerSecond, or more in a bucket whose refill_rate is a       *)
(* fraction of a token per second (SlowTokenBucket).                       *)
(***************************************************************************)
BurstCapacity == 5      \* DomainRateLimiter.__init__: burst_capacity = 5
Units(n) == n * TicksPerSecond

\* TokenBucket.__init__ at time t.
TokenBucket(capacity, refill_rate, t) ==
    [capacity |-> Units(capacity), tokens |-> Units(capacity),
     refill_rate |-> refill_rate, last_refill |-> t, token |-> Units(1)]

\* TokenBucket.__init__ at time t with refill_rate = 1 / seconds tokens per
\* second: a unit is 1/seconds of the usual one, and a tick adds one unit.
SlowTokenBucket(capacity, seconds, t) ==
    [capacity |-> Units(capacity) * seconds, tokens |-> Units(capacity) * seconds,
     refill_rate |-> 1, last_refill |-> t, token |-> Units(1) * seconds]

\* consume whose refill is not capped at capacity.
consume_no_cap(b, t, n) ==
    LET elapsed == t - b.last_refill
        refilled == b.tokens + elapsed * b.refill_rate
    IN IF refilled >= n * b.token
       THEN [b |-> [b EXCEPT !.tokens = refilled - n * b.token, !.last_refill = t],
             ok |-> TRUE]
       ELSE [b |-> [b EXCEPT !.tokens = refilled, !.last_refill = t],
             ok |-> FALSE]

\* consume that forgets to move last_refill.
consume_stale_last_refill(b, t, n) ==
    LET elapsed == t - b.last_refill
        refilled == Min(b.capacity, b.tokens + elapsed * b.refill_rate)
    IN IF refilled >= n * b.token
       THEN [b |-> [b EXCEPT !.tokens = refilled - n * b.token], ok |-> TRUE]
       ELSE [b |-> [b EXCEPT !.tokens = refilled], ok |-> FALSE]

\* consume that wants more than n tokens to be there (> for >=).
consume_strict(b, t, n) ==
    LET elapsed == t - b.last_refill
        refilled == Min(b.capacity, b.tokens + elapsed * b.refill_rate)
    IN IF refilled > n * b.token
       THEN [b |-> [b EXCEPT !.tokens = refilled - n * b.token, !.last_refill = t],
             ok |-> TRUE]
       ELSE [b |-> [b EXCEPT !.tokens = refilled, !.last_refill = t],
             ok |-> FALSE]

\* TokenBucket.consume(n) called at time t: [b, ok].
consume(b, t, n) ==
    LET elapsed == t - b.last_refill
        tokens_to_add == elapsed * b.refill_rate
        refilled == Min(b.capacity, b.tokens + tokens_to_add)
    IN IF refilled >= n * b.token
       THEN [b |-> [b EXCEPT !.tokens = refilled - n * b.token, !.last_refill = t],
             ok |-> TRUE]
       ELSE [b |-> [b EXCEPT !.tokens = refilled, !.last_refill = t],
             ok |-> FALSE]

\* TokenBucket.wait_time(n), in ticks, rounded up to a whole tick.  It
\* reads tokens as they stand and does not refill.
wait_time(b, n) ==
    IF b.tokens >= n * b.token THEN 0
    ELSE LET needed_tokens == n * b.token - b.tokens IN
         (needed_tokens + b.refill_rate - 1) \div b.refill_rate

(***************************************************************************)
(* SpecFrontier: the frontier under arbitrary calls.                       *)
(***************************************************************************)
Priorities == {0, 10}
\* (depth, parent) as callers pair them: the seed has depth 0 and no
\* parent, a link has the depth of the page that linked to it plus one.
\* URLQueue stores both and reads neither.
DepthParents == {<<0, None>>} \cup
                {<<1, u>> : u \in {v \in NormURLs : v.path = "/"}}


\* The rate limiter before any domain was referenced.
BucketIdle ==
    /\ now = 0
    /\ domain_buckets = <<>>
    /\ base = [tokens |-> 0, time |-> 0]
    /\ last_bucket_call = [op |-> "init"]

\* LegalSpider.__init__: results, statistics and the components' stores.
CrawlNew ==
    /\ url_item = None
    /\ response = None
    /\ crawl_results = <<>>
    /\ stats = [pages_crawled |-> 0, pages_skipped |-> 0,
                links_discovered |-> 0, errors_encountered |-> 0]
    /\ safety = [stats |-> [urls_checked |-> 0, urls_blocked |-> 0,
                            robots_blocks |-> 0, auth_blocks |-> 0,
                            filter_blocks |-> 0],
                 robots_cache |-> <<>>, fetch_errors |-> {}]
    /\ http_stats = [requests_made |-> 0, successful_requests |-> 0,
                     failed_requests |-> 0, retries_performed |-> 0,
                     rate_limited_requests |-> 0]
    /\ checked = None
    /\ fetch_calls = {}
    /\ blocked = {}
    /\ net = [waits |-> 0, page_gets |-> 0, robots_gets |-> 0, fetches |-> 0]
    /\ last_fetch = None
    /\ last_check = None
    /\ robots_requests = <<>>
    /\ report = None

\* No crawl is running.
CrawlIdle == pc = "idle" /\ CrawlNew

\* No thread is running.
ThreadsIdle ==
    /\ heap = <<>>
    /\ bucket_ids = <<>>
    /\ threads = <<>>

\* The frontier before LegalSpider constructs it.
FrontierIdle ==
    /\ url_queue = NewURLQueue(0)
    /\ accepted = <<>>
    /\ returned = <<>>
    /\ visited_adds = [u \in NormURLs |-> 0]
    /\ last_call = [op |-> "init"]

InitFrontier ==
    /\ ThreadsIdle
    /\ spec_kind = "frontier"
    /\ max_pages \in 1..MaxPages
    /\ max_depth = MaxDepth
    /\ max_retries = MaxRetries
    /\ url_queue = NewURLQueue(max_pages * 2)
    /\ accepted = <<>>
    /\ returned = <<>>
    /\ visited_adds = [u \in NormURLs |-> 0]
    /\ last_call = [op |-> "init"]
    /\ BucketIdle
    /\ CrawlIdle

AddUrl ==
    \E url \in RawURLs, dp \in DepthParents, priority \in Priorities :
        LET r == add_url(url_queue, url, dp[1], dp[2], priority) IN
        /\ url_queue' = r.q
        /\ accepted' = IF r.ok THEN Append(accepted, normalize_url(url))
                       ELSE accepted
        /\ last_call' = [op |-> "add_url", url |-> normalize_url(url),
                         variant |-> (url # normalize_url(url)),
                         ok |-> r.ok, before |-> url_queue]
        /\ UNCHANGED <<returned, visited_adds, config_vars, thread_vars, bucket_vars,
                       crawl_vars>>

GetNextUrl ==
    /\ ~is_empty(url_queue)
    /\ LET r == get_next_url(url_queue) IN
        /\ url_queue' = r.q
        /\ returned' = Append(returned, r.item)
        /\ visited_adds' = [visited_adds EXCEPT ![r.item.url] = @ + 1]
        /\ last_call' = [op |-> "get_next_url", item |-> r.item,
                         before |-> url_queue]
        /\ UNCHANGED <<accepted, config_vars, thread_vars, bucket_vars, crawl_vars>>

\* get_next_url on an empty queue returns None and changes nothing.
GetNextUrlEmpty ==
    /\ is_empty(url_queue)
    /\ last_call' = [op |-> "get_next_url", item |-> None,
                     before |-> url_queue]
    /\ UNCHANGED <<url_queue, accepted, returned, visited_adds, config_vars, thread_vars,
                   bucket_vars, crawl_vars>>


NextFrontier == AddUrl \/ GetNextUrl \/ GetNextUrlEmpty

SpecFrontier == InitFrontier /\ [][NextFrontier]_vars

(***************************************************************************)
(* Claims about the frontier (checked under SpecFrontier).                 *)
(***************************************************************************)
ReturnedURLs == [i \in 1..Len(returned) |-> returned[i].url]

\* C4: every normalized URL is returned by get_next_url at most once, in
\* whatever casing or fragment variant and however often it was passed to
\* add_url; the URLs returned are normalized.
C4_FrontierDedup ==
    /\ \A i, j \in 1..Len(returned) :
          returned[i].url = returned[j].url => i = j
    /\ \A i \in 1..Len(returned) :
          normalize_url(returned[i].url) = returned[i].url

\* C4 witness: a URL already returned once is passed to add_url again in a
\* variant that differs from its normalized form, and is refused.
C4_Witness ==
    /\ last_call.op = "add_url"
    /\ last_call.variant
    /\ ~last_call.ok
    /\ \E i \in 1..Len(returned) : returned[i].url = last_call.url

\* C5: in_queue and visited are disjoint, and visited.add is called at most
\* once per normalized URL.
C5_QueuedVisitedDisjoint ==
    /\ url_queue.in_queue \cap url_queue.visited = {}
    /\ \A u \in NormURLs : visited_adds[u] <= 1
    /\ url_queue.visited = {u \in NormURLs : visited_adds[u] = 1}

\* C5 witness: some URL is visited while another is still queued.
C5_Witness ==
    /\ url_queue.visited # {}
    /\ url_queue.in_queue # {}
    /\ \E u \in url_queue.visited : visited_adds[u] = 1

C7_FrontierBounded ==
    /\ url_queue.max_size = max_pages * 2
    /\ Len(url_queue.queue) <= url_queue.max_size
    /\ (last_call.op = "add_url"
        /\ Len(last_call.before.queue) >= last_call.before.max_size)
       => (~last_call.ok /\ url_queue = last_call.before)

\* C7 witness: a URL neither queued nor visited is refused by a full queue.
C7_Witness ==
    /\ last_call.op = "add_url"
    /\ Len(last_call.before.queue) = last_call.before.max_size
    /\ last_call.url \notin
          (last_call.before.visited \cup last_call.before.in_queue)
    /\ ~last_call.ok

(***************************************************************************)
(* SpecBucket: one TokenBucket under arbitrary consume and wait_time       *)
(* calls, with a clock that never goes back.                               *)
(***************************************************************************)
Capacities == {1, BurstCapacity}    \* capacity, in tokens
Rates == {1, 2}                     \* refill_rate, in tokens per second
BucketDomain == "site.com"
bucket == domain_buckets[BucketDomain]

InitBucket ==
    /\ ThreadsIdle
    /\ spec_kind = "bucket"
    /\ max_pages = 1
    /\ max_depth = 0
    /\ max_retries = MaxRetries
    /\ FrontierIdle
    /\ CrawlIdle
    /\ now = 0
    /\ \E capacity \in Capacities, refill_rate \in Rates :
         domain_buckets = [d \in {BucketDomain} |->
                             TokenBucket(capacity, refill_rate, now)]
    /\ base = [tokens |-> bucket.tokens, time |-> now]
    /\ last_bucket_call = [op |-> "init"]

\* time passes
Tick ==
    /\ now < MaxTime
    /\ now' = now + 1
    /\ UNCHANGED <<domain_buckets, base, last_bucket_call, config_vars, thread_vars,
                   frontier_vars, crawl_vars>>

Consume ==
    \E n \in 1..MaxConsume :
        LET r == consume(bucket, now, n) IN
        /\ domain_buckets' = [domain_buckets EXCEPT ![BucketDomain] = r.b]
        /\ base' = IF r.ok THEN [tokens |-> r.b.tokens, time |-> now] ELSE base
        /\ last_bucket_call' = [op |-> "consume", n |-> n, ok |-> r.ok,
                                at |-> now, before |-> bucket]
        /\ UNCHANGED <<now, config_vars, thread_vars, frontier_vars, crawl_vars>>

WaitTime ==
    \E n \in 1..MaxConsume :
        /\ last_bucket_call' = [op |-> "wait_time", n |-> n,
                                result |-> wait_time(bucket, n),
                                at |-> now, before |-> bucket]
        /\ UNCHANGED <<now, domain_buckets, base, config_vars, thread_vars, frontier_vars,
                       crawl_vars>>

NextBucket == Tick \/ Consume \/ WaitTime

SpecBucket == InitBucket /\ [][NextBucket]_vars

(***************************************************************************)
(* Claims about the token bucket (checked under SpecBucket).               *)
(***************************************************************************)
\* C8: after any sequence of consume and wait_time calls made while time
\* does not go back, 0 <= tokens <= capacity.
C8_TokensWithinCapacity ==
    /\ 0 <= bucket.tokens
    /\ bucket.tokens <= bucket.capacity
    /\ bucket.last_refill <= now

\* C8 witness: a consume whose refill had to be cut down to capacity.
C8_Witness ==
    /\ last_bucket_call.op = "consume"
    /\ LET b == last_bucket_call.before IN
         b.tokens + (last_bucket_call.at - b.last_refill) * b.refill_rate
           > b.capacity
    /\ last_bucket_call.before.tokens < last_bucket_call.before.capacity

\* The token count a consume called at time t observes after its refill.
Observed(b, t) ==
    Min(b.capacity, b.tokens + (t - b.last_refill) * b.refill_rate)

SiteDomain == "site.com"
SitePaths == {"/", "/a", "/b", "/report.pdf", "/signin"}
SiteURL(p) == URL("https", SiteDomain, p, "")
SiteURLs == {SiteURL(p) : p \in SitePaths}
start_url == URL("https", "Site.COM", "", "")     \* config.start_url

\* utils.extract_domain
extract_domain(url) == Lower(url.netloc)

\* _extract_links: a list of distinct normalized in-domain URLs, in
\* document order.
LinkLists ==
    {l \in UNION {[1..n -> SiteURLs] : n \in 0..MaxLinks} :
        \A i, j \in 1..Len(l) : l[i] = l[j] => i = j}

(***************************************************************************)
(* Safety gate (safety.py).  `safety` is the record                        *)
(*   [stats, robots_cache, fetch_errors]                                   *)
(* of SafetyManager.stats and the RobotsChecker's two stores.  A parsed    *)
(* robots.txt is [disallowed, crawl_delay]: the paths it disallows for the *)
(* crawler's user agent and its Crawl-delay in seconds (0: none given).    *)
(***************************************************************************)
respect_robots_txt == TRUE          \* config.respect_robots_txt
avoid_auth_pages == TRUE            \* config.avoid_auth_pages
excluded_extensions == {".pdf", ".zip", ".png"}   \* config.excluded_extensions

\* utils.get_file_extension: Path(path).suffix.lower()
get_file_extension(url) ==
    CASE url.path = "/report.pdf" -> ".pdf"
      [] OTHER -> ""

\* utils.has_excluded_extension
has_excluded_extension(url) == get_file_extension(url) \in excluded_extensions

\* URLFilter._has_excluded_path: the lower-cased path holds one of
\* config.excluded_paths ('/admin/', '/login/', '/signin/', ...); of the
\* paths of the model only "/admin/x" does ("/signin" has no '/signin/').
has_excluded_path(url) == url.path \in {"/admin/x"}

MaxURLLen == 2048       \* `if len(url) > 2048`

\* len(url): the path "/long" stands for one that makes the URL 2049
\* characters long; every other URL of the model is short.
url_len(url) == IF url.path = "/long" THEN 2049 ELSE 32

\* URLFilter.is_safe_url
is_safe_url(url) ==
    /\ url.scheme \in {"http", "https"}
    /\ ~has_excluded_extension(url)
    /\ ~has_excluded_path(url)
    /\ ~(url_len(url) > MaxURLLen)

\* should_crawl without the depth test.
should_crawl_any_depth(url, depth) == is_safe_url(url)

\* URLFilter.should_crawl
should_crawl(url, depth) ==
    IF depth > max_depth THEN FALSE ELSE is_safe_url(url)

\* AuthDetector._check_url_patterns: AUTH_URL_PATTERNS and
\* SENSITIVE_PATH_PATTERNS searched in the URL ('.*/signin.*' matches).
is_auth_protected(url) == url.path \in {"/signin"}

\* What RobotFileParser.read() of a domain's robots.txt may bring.  ok
\* FALSE: read() raises (URLError, timeout, undecodable body).  Else the
\* status of the response: 200 with the file's rules, or an HTTPError that
\* read() catches itself (403, 404, 503 stand for 401/403, the other 4xx
\* and the other codes).
RobotsOutcomes ==
    {[ok |-> FALSE, status |-> 0, disallowed |-> {}, crawl_delay |-> 0]} \cup
    {[ok |-> TRUE, status |-> 200, disallowed |-> d, crawl_delay |-> c] :
        d \in {{}, {"/b"}}, c \in {0, 1}} \cup
    {[ok |-> TRUE, status |-> c, disallowed |-> {}, crawl_delay |-> 0] :
        c \in {403, 404, 503}}

\* The RobotFileParser that _fetch_robots_txt caches after read() returned:
\* read() parses a 200 body, sets disallow_all on 401/403 and allow_all on
\* another 4xx, and leaves the parser unread (last_checked = 0) on any
\* other HTTPError.
read_parser(outcome) ==
    [state |-> CASE outcome.status = 200 -> "parsed"
                 [] outcome.status = 403 -> "disallow_all"
                 [] outcome.status = 404 -> "allow_all"
                 [] OTHER -> "unread",
     disallowed |-> outcome.disallowed,
     crawl_delay |-> outcome.crawl_delay]

\* RobotFileParser.can_fetch: nothing is allowed while the file is unread
rp_can_fetch(rp, url) ==
    CASE rp.state = "disallow_all" -> FALSE
      [] rp.state = "allow_all" -> TRUE
      [] rp.state = "unread" -> FALSE
      [] OTHER -> url.path \notin rp.disallowed

\* RobotFileParser.crawl_delay: None (0) unless a file was parsed
rp_crawl_delay(rp) == IF rp.state = "parsed" THEN rp.crawl_delay ELSE 0

\* can_fetch that does not look into fetch_errors.
can_fetch_forgets_errors(s, url, outcome) ==
    LET domain == extract_domain(url) IN
    IF domain = ""
    THEN [s |-> s, allowed |-> FALSE, fetched |-> FALSE]
    ELSE IF domain \in DOMAIN s.robots_cache
    THEN [s |-> s, allowed |-> rp_can_fetch(s.robots_cache[domain], url),
          fetched |-> FALSE]
    ELSE IF outcome.ok
    THEN LET rp == read_parser(outcome) IN
         [s |-> [s EXCEPT !.robots_cache = (domain :> rp) @@ @],
          allowed |-> rp_can_fetch(rp, url), fetched |-> TRUE]
    ELSE [s |-> [s EXCEPT !.fetch_errors = @ \cup {domain}],
          allowed |-> TRUE, fetched |-> TRUE]

\* RobotsChecker.can_fetch, with _fetch_robots_txt inlined: [s, allowed,
\* fetched], fetched telling whether robots.txt was requested.
can_fetch(s, url, outcome) ==
    LET domain == extract_domain(url) IN
    IF domain = ""
    THEN [s |-> s, allowed |-> FALSE, fetched |-> FALSE]
    ELSE IF domain \in DOMAIN s.robots_cache
    THEN [s |-> s, allowed |-> rp_can_fetch(s.robots_cache[domain], url),
          fetched |-> FALSE]
    ELSE IF domain \in s.fetch_errors
    THEN [s |-> s, allowed |-> TRUE, fetched |-> FALSE]
    ELSE IF outcome.ok
    THEN LET rp == read_parser(outcome) IN
         [s |-> [s EXCEPT !.robots_cache = (domain :> rp) @@ @],
          allowed |-> rp_can_fetch(rp, url), fetched |-> TRUE]
    ELSE [s |-> [s EXCEPT !.fetch_errors = @ \cup {domain}],
          allowed |-> TRUE, fetched |-> TRUE]

\* An Optional[float] delay that is None.
NoDelay == -1

\* RobotsChecker.get_crawl_delay / SafetyManager.get_robots_delay, in
\* seconds: `float(delay) if delay else None`.
get_robots_delay(s, url) ==
    LET domain == extract_domain(url) IN
    IF ~respect_robots_txt \/ domain \notin DOMAIN s.robots_cache
    THEN NoDelay
    ELSE LET delay == rp_crawl_delay(s.robots_cache[domain]) IN
         IF delay # 0 THEN delay ELSE NoDelay

\* pre_crawl_check whose auth block leaves urls_blocked alone.
pre_crawl_check_auth_uncounted(s, url, depth, outcome) ==
    LET s1 == [s EXCEPT !.stats.urls_checked = @ + 1]
        r == can_fetch(s1, url, outcome)
    IN
    IF ~should_crawl(url, depth)
    THEN [s |-> [s1 EXCEPT !.stats.urls_blocked = @ + 1,
                           !.stats.filter_blocks = @ + 1],
          ok |-> FALSE, robots_fetched |-> FALSE, stage |-> "filter"]
    ELSE IF respect_robots_txt /\ ~r.allowed
    THEN [s |-> [r.s EXCEPT !.stats.urls_blocked = @ + 1,
                            !.stats.robots_blocks = @ + 1],
          ok |-> FALSE, robots_fetched |-> r.fetched, stage |-> "robots"]
    ELSE LET s2 == IF respect_robots_txt THEN r.s ELSE s1
             f2 == respect_robots_txt /\ r.fetched
         IN
         IF avoid_auth_pages /\ is_auth_protected(url)
         THEN [s |-> [s2 EXCEPT !.stats.auth_blocks = @ + 1],
               ok |-> FALSE, robots_fetched |-> f2, stage |-> "auth"]
         ELSE [s |-> s2, ok |-> TRUE, robots_fetched |-> f2,
               stage |-> "allow"]

\* pre_crawl_check that asks robots.txt before the URL filter.
pre_crawl_check_robots_first(s, url, depth, outcome) ==
    LET s1 == [s EXCEPT !.stats.urls_checked = @ + 1]
        r == can_fetch(s1, url, outcome)
    IN
    IF respect_robots_txt /\ ~r.allowed
    THEN [s |-> [r.s EXCEPT !.stats.urls_blocked = @ + 1,
                            !.stats.robots_blocks = @ + 1],
          ok |-> FALSE, robots_fetched |-> r.fetched, stage |-> "robots"]
    ELSE LET s2 == IF respect_robots_txt THEN r.s ELSE s1
             f2 == respect_robots_txt /\ r.fetched
         IN
         IF ~should_crawl(url, depth)
         THEN [s |-> [s2 EXCEPT !.stats.urls_blocked = @ + 1,
                                !.stats.filter_blocks = @ + 1],
               ok |-> FALSE, robots_fetched |-> f2, stage |-> "filter"]
         ELSE IF avoid_auth_pages /\ is_auth_protected(url)
         THEN [s |-> [s2 EXCEPT !.stats.urls_blocked = @ + 1,
                                !.stats.auth_blocks = @ + 1],
               ok |-> FALSE, robots_fetched |-> f2, stage |-> "auth"]
         ELSE [s |-> s2, ok |-> TRUE, robots_fetched |-> f2,
               stage |-> "allow"]

\* SafetyManager.pre_crawl_check: [s, ok, robots_fetched, stage], stage
\* naming the check that refused the URL ("allow": none did).
pre_crawl_check(s, url, depth, outcome) ==
    LET s1 == [s EXCEPT !.stats.urls_checked = @ + 1]
        r == can_fetch(s1, url, outcome)
    IN
    IF ~should_crawl(url, depth)
    THEN [s |-> [s1 EXCEPT !.stats.urls_blocked = @ + 1,
                           !.stats.filter_blocks = @ + 1],
          ok |-> FALSE, robots_fetched |-> FALSE, stage |-> "filter"]
    ELSE IF respect_robots_txt /\ ~r.allowed
    THEN [s |-> [r.s EXCEPT !.stats.urls_blocked = @ + 1,
                            !.stats.robots_blocks = @ + 1],
          ok |-> FALSE, robots_fetched |-> r.fetched, stage |-> "robots"]
    ELSE LET s2 == IF respect_robots_txt THEN r.s ELSE s1
             f2 == respect_robots_txt /\ r.fetched
         IN
         IF avoid_auth_pages /\ is_auth_protected(url)
         THEN [s |-> [s2 EXCEPT !.stats.urls_blocked = @ + 1,
                                !.stats.auth_blocks = @ + 1],
               ok |-> FALSE, robots_fetched |-> f2, stage |-> "auth"]
         ELSE [s |-> s2, ok |-> TRUE, robots_fetched |-> f2,
               stage |-> "allow"]

\* The history entry of a pre_crawl_check call: its arguments, its result
\* r, what read() brought if robots.txt was requested, and the
\* SafetyManager before the call.
CheckRecord(s, url, depth, outcome, r) ==
    [url |-> url, depth |-> depth, ok |-> r.ok, stage |-> r.stage,
     robots_fetched |-> r.robots_fetched,
     read |-> IF r.robots_fetched THEN outcome ELSE None,
     before |-> s]

\* The robots.txt requests per domain after a pre_crawl_check call with
\* result r: the outcome of a request is appended to its domain's list.
Requested(requests, url, outcome, r) ==
    LET domain == extract_domain(url)
        sent == IF domain \in DOMAIN requests THEN requests[domain] ELSE <<>>
    IN IF r.robots_fetched
       THEN (domain :> Append(sent, outcome)) @@ requests
       ELSE requests

(***************************************************************************)
(* DomainRateLimiter (http_client.py).  Durations are in ticks.            *)
(***************************************************************************)
requests_per_second == 1        \* config.requests_per_second

\* the loop `while not bucket.consume(): sleep(min(wait_time, 1.0))`
\* entered at time t: the bucket and the time when it ends.
RECURSIVE wait_loop(_, _)
wait_loop(b, t) ==
    LET r == consume(b, t, 1) IN
    IF r.ok THEN [b |-> r.b, t |-> t]
    ELSE wait_loop(r.b, t + Min(wait_time(r.b, 1), TicksPerSecond))

\* wait_if_needed that takes a token before it sleeps the custom delay.
wait_if_needed_consumes(buckets, t, domain, custom_delay) ==
    LET b == IF domain \in DOMAIN buckets THEN buckets[domain]
             ELSE TokenBucket(BurstCapacity, requests_per_second, t)
    IN
    IF custom_delay # NoDelay /\ custom_delay # 0
    THEN [buckets |-> (domain :> consume(b, t, 1).b) @@ buckets,
          t |-> t + custom_delay * TicksPerSecond]
    ELSE LET w == wait_loop(b, t) IN
         [buckets |-> (domain :> w.b) @@ buckets, t |-> w.t]

\* DomainRateLimiter.wait_if_needed(domain, custom_delay) called at time
\* t: [buckets, t].  domain_buckets[domain] makes the bucket on first use.
wait_if_needed(buckets, t, domain, custom_delay) ==
    LET b == IF domain \in DOMAIN buckets THEN buckets[domain]
             ELSE TokenBucket(BurstCapacity, requests_per_second, t)
    IN
    IF custom_delay # NoDelay /\ custom_delay # 0     \* `if custom_delay:`
    THEN [buckets |-> (domain :> b) @@ buckets,
          t |-> t + custom_delay * TicksPerSecond]
    ELSE LET w == wait_loop(b, t) IN
         [buckets |-> (domain :> w.b) @@ buckets, t |-> w.t]

(***************************************************************************)
(* HTTPClient (http_client.py).  What one GET brings is the record         *)
(*   [kind, code, content_type, retry_after, jitter]:                      *)
(* kind "status" for a response, else the exception session.get raised;    *)
(* retry_after the Retry-After header, a record [form, seconds]: absent,   *)
(* a number of seconds, or an HTTP date; jitter the value                  *)
(* random.uniform(0, 1) takes if a backoff delay is computed, in ticks.    *)
(***************************************************************************)
NoException == "None"
NoRetryAfter == [form |-> "absent", seconds |-> 0]
RetryAfter(seconds) == [form |-> "seconds", seconds |-> seconds]
RetryAfterDate == [form |-> "date", seconds |-> 0]
DefaultRetryAfter == 60     \* response.headers.get('Retry-After', 60)
MaxRetryAfter == 300        \* min(retry_after, 300)

Outcome(kind, code, ct, ra, j) ==
    [kind |-> kind, code |-> code, content_type |-> ct, retry_after |-> ra,
     jitter |-> j]

AttemptOutcomes ==
    {Outcome("status", 200, ct, NoRetryAfter, 0) : ct \in {"text/html", "image/png"}}
    \cup {Outcome("status", 404, "", NoRetryAfter, 0)}
    \cup {Outcome("status", 429, "", NoRetryAfter, 0)}
    \cup {Outcome("status", 503, "", NoRetryAfter, j) : j \in {0, TicksPerSecond}}
    \cup {Outcome("Timeout", 0, "", NoRetryAfter, 0)}
    \cup {Outcome("RequestException", 0, "", NoRetryAfter, 0)}

\* is_html that takes an image for a page.
is_html_or_image(resp) ==
    resp.content_type \in {"text/html", "application/xhtml+xml", "image/png"}

\* HTTPResponse.is_html: 'html' is a substring of the content type
is_html(resp) == resp.content_type \in {"text/html", "application/xhtml+xml"}

\* 2 to the power n
RECURSIVE Pow2(_)
Pow2(n) == IF n = 0 THEN 1 ELSE 2 * Pow2(n - 1)

\* HTTPClient._calculate_retry_delay, in ticks
calculate_retry_delay(attempt, jitter) ==
    Pow2(attempt) * TicksPerSecond + jitter

\* HTTPClient._handle_status_code: [should_retry, delay, stats, raised].
\* raised: `int(response.headers.get('Retry-After', 60))` raised ValueError,
\* as int does of a header that is not a decimal number.
handle_status_code(hs, out, attempt) ==
    IF out.code = 200
    THEN [should_retry |-> FALSE, delay |-> 0, stats |-> hs, raised |-> FALSE]
    ELSE IF out.code = 429
    THEN LET retry_after == IF out.retry_after.form = "absent"
                            THEN DefaultRetryAfter
                            ELSE out.retry_after.seconds
         IN [should_retry |-> TRUE,
             delay |-> Min(retry_after, MaxRetryAfter) * TicksPerSecond,
             stats |-> [hs EXCEPT !.rate_limited_requests = @ + 1],
             raised |-> out.retry_after.form = "date"]
    ELSE IF out.code \in {500, 502, 503, 504}
    THEN [should_retry |-> TRUE,
          delay |-> calculate_retry_delay(attempt, out.jitter), stats |-> hs,
          raised |-> FALSE]
    ELSE IF 400 <= out.code /\ out.code < 500
    THEN [should_retry |-> FALSE, delay |-> 0, stats |-> hs, raised |-> FALSE]
    ELSE [should_retry |-> TRUE,
          delay |-> calculate_retry_delay(attempt, out.jitter), stats |-> hs,
          raised |-> FALSE]

\* the entries of a call log: a GET sent to a domain (n: the attempt), a
\* time.sleep (n: its length in ticks), a wait_if_needed call for a domain
Get(attempt, domain) == [ev |-> "GET", n |-> attempt, domain |-> domain]
Sleep(d) == [ev |-> "sleep", n |-> d, domain |-> ""]
Wait(domain) == [ev |-> "wait_if_needed", n |-> 0, domain |-> domain]

\* the number of entries of a log that are of kind ev
RECURSIVE Count(_, _)
Count(log, ev) ==
    IF log = <<>> THEN 0
    ELSE (IF Head(log).ev = ev THEN 1 ELSE 0) + Count(Tail(log), ev)

\* the content type of a 200 response whose body, decoded as its charset
\* says, holds a lone surrogate (the bytes \ud800 under unicode_escape)
SurrogateHtml == "text/html; charset=unicode_escape"

\* HTTPClient._create_response raises: `content.encode('utf-8')` raises
\* UnicodeEncodeError of a text that holds a lone surrogate
create_response_raises(out) == out.content_type = SurrogateHtml

\* every exception of session.get taken for a network error.
is_network_error_any(kind) == TRUE

\* `except requests.exceptions.Timeout` and `except
\* requests.exceptions.ConnectionError`: the exceptions that are retried
is_network_error(kind) == kind \in {"Timeout", "ConnectionError"}

\* the end of _fetch_with_retry once the loop is left without a return
fetch_failed(hs, last_exception, log) ==
    [result |-> IF last_exception # NoException THEN "raise" ELSE "none",
     response |-> None,
     stats |-> [hs EXCEPT !.failed_requests = @ + 1],
     log |-> log]

\* HTTPClient._fetch_with_retry from iteration `attempt` of its loop on;
\* outs[attempt + 1] is what that iteration's GET brings.  The result is
\* [result, response, stats, log]: result "response", "none" (None is
\* returned) or "raise" (HTTPError), log the GETs and sleeps in order.
\* the loop with one iteration more.
attempts_one_more == max_retries + 2

\* `for attempt in range(self.config.max_retries + 1)`: the number of
\* iterations
attempts == max_retries + 1

RECURSIVE fetch_with_retry(_, _, _, _, _, _)
fetch_with_retry(url, attempt, outs, hs, last_exception, log) ==
    IF attempt >= attempts
    THEN fetch_failed(hs, last_exception, log)
    ELSE
    LET out == outs[attempt + 1]
        log1 == Append(log, Get(attempt, extract_domain(url)))
    IN
    IF out.kind = "status"
    THEN LET h == handle_status_code(
                    [hs EXCEPT !.requests_made = @ + 1], out, attempt)
         IN
         IF h.raised
         THEN \* `except Exception`: break
              fetch_failed(h.stats, "ValueError", log1)
         ELSE IF ~h.should_retry
         THEN IF out.code = 200
              THEN IF create_response_raises(out)
                   THEN \* successful_requests is counted before
                        \* _create_response runs; `except Exception`: break
                        fetch_failed(
                            [h.stats EXCEPT !.successful_requests = @ + 1],
                            "UnicodeEncodeError", log1)
                   ELSE
                   [result |-> "response",
                    response |-> [status_code |-> out.code,
                                  content_type |-> out.content_type],
                    stats |-> [h.stats EXCEPT !.successful_requests = @ + 1],
                    log |-> log1]
              ELSE [result |-> "none", response |-> None,
                    stats |-> [h.stats EXCEPT !.failed_requests = @ + 1],
                    log |-> log1]
         ELSE IF attempt < max_retries
         THEN IF h.delay < 0
              THEN \* time.sleep of a negative length raises ValueError:
                   \* `except Exception`: break
                   fetch_failed([h.stats EXCEPT !.retries_performed = @ + 1],
                                "ValueError", log1)
              ELSE fetch_with_retry(url, attempt + 1, outs,
                               [h.stats EXCEPT !.retries_performed = @ + 1],
                               last_exception, Append(log1, Sleep(h.delay)))
         ELSE fetch_with_retry(url, attempt + 1, outs, h.stats, last_exception,
                               log1)
    ELSE IF is_network_error(out.kind)
    THEN IF attempt < max_retries
         THEN fetch_with_retry(url, attempt + 1, outs,
                               [hs EXCEPT !.retries_performed = @ + 1],
                               out.kind,
                               Append(log1, Sleep(calculate_retry_delay(
                                                    attempt, out.jitter))))
         ELSE fetch_with_retry(url, attempt + 1, outs, hs, out.kind, log1)
    ELSE fetch_failed(hs, out.kind, log1)

\* the ticks slept in a log
RECURSIVE Slept(_)
Slept(log) ==
    IF log = <<>> THEN 0
    ELSE (IF Head(log).ev = "sleep" THEN Head(log).n ELSE 0) + Slept(Tail(log))

\* fetch that runs the retries first and the rate limiter afterwards.
fetch_wait_last(hs, buckets, t, url, custom_delay, outs) ==
    LET domain == extract_domain(url)
        f == fetch_with_retry(url, 0, outs, hs, NoException, <<>>)
        w == wait_if_needed(buckets, t + Slept(f.log), domain, custom_delay)
    IN [result |-> f.result, response |-> f.response, stats |-> f.stats,
        buckets |-> w.buckets, t |-> w.t,
        log |-> f.log \o <<Wait(domain)>>]

\* HTTPClient.fetch(url, custom_delay) called at time t:
\* [result, response, stats, buckets, t, log].
fetch(hs, buckets, t, url, custom_delay, outs) ==
    LET domain == extract_domain(url) IN
    IF domain = ""
    THEN [result |-> "none", response |-> None, stats |-> hs,
          buckets |-> buckets, t |-> t, log |-> <<>>]
    ELSE LET w == wait_if_needed(buckets, t, domain, custom_delay)
             f == fetch_with_retry(url, 0, outs, hs, NoException, <<>>)
         IN [result |-> f.result, response |-> f.response, stats |-> f.stats,
             buckets |-> w.buckets, t |-> w.t + Slept(f.log),
             log |-> <<Wait(domain)>> \o f.log]

\* The history entry of a fetch call: its arguments, its result f, and
\* what the last GET it sent brought (None if it sent none).
FetchRecord(url, custom_delay, outs, f) ==
    [url |-> url, custom_delay |-> custom_delay, result |-> f.result,
     log |-> f.log,
     last |-> IF Count(f.log, "GET") = 0 THEN None
              ELSE outs[Count(f.log, "GET")]]

(***************************************************************************)
(* LegalSpider (spider.py).  The crawl loop stands at pc:                  *)
(*   "start"    crawl() was called                                         *)
(*   "loop"     at the test of the while loop                              *)
(*   "check"    in _crawl_single_page, before pre_crawl_check              *)
(*   "fetch"    before get_robots_delay and http_client.fetch              *)
(*   "process"  fetch returned a response                                  *)
(*   "done"     the loop ended and crawl() returned the report             *)
(*   "interrupted"  KeyboardInterrupt ended it and crawl() returned the    *)
(*              report                                                     *)
(*   "failed"   crawl() raised SpiderError                                 *)
(* crawl_results keeps of each record the fields depth, parent_url,        *)
(* status_code, content_type and links_found.                              *)
(***************************************************************************)
\* the while condition with <= for <.
crawl_continues_off_by_one(q, st) ==
    ~is_empty(q) /\ st.pages_crawled <= max_pages

\* the condition of the while loop of crawl()
crawl_continues(q, st) ==
    ~is_empty(q) /\ st.pages_crawled < max_pages

\* _crawl_single_page going on to the fetch whatever pre_crawl_check said.
after_pre_crawl_check_ignored(ok) == "fetch"

\* _crawl_single_page after pre_crawl_check: `if not ...: return`
after_pre_crawl_check(ok) == IF ok THEN "fetch" ELSE "loop"

\* the loop over the links with <= for <.
RECURSIVE enqueue_links_off_by_one(_, _, _)
enqueue_links_off_by_one(q, links, item) ==
    IF links = <<>> THEN q
    ELSE enqueue_links_off_by_one(
            IF item.depth <= max_depth
            THEN add_url(q, Head(links), item.depth + 1, item.url,
                         item.depth + 1).q
            ELSE q,
            Tail(links), item)

\* the loop over the links passing on the parent of the page as parent.
RECURSIVE enqueue_links_parent_of_parent(_, _, _)
enqueue_links_parent_of_parent(q, links, item) ==
    IF links = <<>> THEN q
    ELSE enqueue_links_parent_of_parent(
            IF item.depth < max_depth
            THEN add_url(q, Head(links), item.depth + 1, item.parent_url,
                         item.depth + 1).q
            ELSE q,
            Tail(links), item)

\* _crawl_single_page: `for link in extracted_links: if url_item.depth <
\* max_depth: add_url(link, depth + 1, parent=url, priority=depth + 1)`
RECURSIVE enqueue_links(_, _, _)
enqueue_links(q, links, item) ==
    IF links = <<>> THEN q
    ELSE enqueue_links(
            IF item.depth < max_depth
            THEN add_url(q, Head(links), item.depth + 1, item.url,
                         item.depth + 1).q
            ELSE q,
            Tail(links), item)

\* a page given up without being counted.
on_page_skipped_uncounted(st) == st

\* _crawl_single_page: `self.stats['pages_skipped'] += 1` before each of
\* its three early returns
on_page_skipped(st) == [st EXCEPT !.pages_skipped = @ + 1]

\* the per-URL handler losing count of the error.
on_page_error_uncounted(st) == st

\* crawl(): `except Exception as e: self.stats['errors_encountered'] += 1`
\* around _crawl_single_page
on_page_error(st) == [st EXCEPT !.errors_encountered = @ + 1]

\* a report that leaves the records out.
generate_report_no_results(results, st, q, s, hs) ==
    [summary |-> st, crawl_results |-> <<>>,
     queue_stats |-> [queue_size |-> Len(q.queue),
                      visited_count |-> Cardinality(q.visited)],
     safety_stats |-> s.stats, http_stats |-> hs]

\* LegalSpider._generate_report (the durations and rates, which hold
\* wall-clock time, are left out)
generate_report(results, st, q, s, hs) ==
    [summary |-> st, crawl_results |-> results,
     queue_stats |-> [queue_size |-> Len(q.queue),
                      visited_count |-> Cardinality(q.visited)],
     safety_stats |-> s.stats, http_stats |-> hs]

InitCrawl ==
    /\ ThreadsIdle
    /\ spec_kind = "crawl"
    /\ max_pages \in 1..MaxPages
    /\ max_depth \in 0..MaxDepth
    /\ max_retries = MaxRetries
    /\ url_queue = NewURLQueue(max_pages * 2)
    /\ accepted = <<>>
    /\ returned = <<>>
    /\ visited_adds = [u \in NormURLs |-> 0]
    /\ last_call = [op |-> "init"]
    /\ BucketIdle
    /\ pc = "start"
    /\ CrawlNew

\* crawl(): the seed is queued
Start ==
    /\ pc = "start"
    /\ url_queue' = add_url(url_queue, start_url, 0, None, 10).q
    /\ pc' = "loop"
    /\ UNCHANGED <<config_vars, thread_vars, frontier_hist, bucket_vars, url_item, response,
                   crawl_results, stats, safety, http_stats, checked,
                   fetch_calls, blocked, net, last_fetch,
                   safety_hist, report>>

\* the while test holds: get_next_url
Dequeue ==
    /\ pc = "loop"
    /\ crawl_continues(url_queue, stats)
    /\ LET r == get_next_url(url_queue) IN
        /\ url_queue' = r.q
        /\ url_item' = r.item
    /\ response' = None
    /\ checked' = None
    /\ pc' = "check"
    /\ UNCHANGED <<config_vars, thread_vars, frontier_hist, bucket_vars, crawl_results,
                   stats, safety, http_stats, fetch_calls, blocked, net,
                   last_fetch,
                   safety_hist, report>>

\* the while test fails: the report is generated
Finish ==
    /\ pc = "loop"
    /\ ~crawl_continues(url_queue, stats)
    /\ report' = generate_report(crawl_results, stats, url_queue, safety,
                                 http_stats)
    /\ pc' = "done"
    /\ UNCHANGED <<config_vars, thread_vars, frontier_vars, bucket_vars, url_item, response,
                   crawl_results, stats, safety, http_stats, checked,
                   fetch_calls, blocked, net, last_fetch,
                   safety_hist>>

\* _crawl_single_page: pre_crawl_check(url, depth)
PreCrawlCheck ==
    /\ pc = "check"
    /\ \E outcome \in RobotsOutcomes :
        LET r == pre_crawl_check(safety, url_item.url, url_item.depth, outcome)
        IN
        /\ safety' = r.s
        /\ checked' = [url |-> url_item.url, depth |-> url_item.depth,
                       ok |-> r.ok]
        /\ blocked' = IF r.ok THEN blocked
                      ELSE blocked \cup {<<url_item.url, url_item.depth>>}
        /\ net' = [net EXCEPT !.robots_gets =
                                 @ + (IF r.robots_fetched THEN 1 ELSE 0)]
        /\ last_check' = CheckRecord(safety, url_item.url, url_item.depth,
                                     outcome, r)
        /\ robots_requests' = Requested(robots_requests, url_item.url,
                                        outcome, r)
        /\ stats' = IF r.ok THEN stats ELSE on_page_skipped(stats)
        /\ pc' = after_pre_crawl_check(r.ok)
    /\ UNCHANGED <<config_vars, thread_vars, frontier_vars, bucket_vars, url_item, response,
                   crawl_results, http_stats, fetch_calls, last_fetch, report>>

\* _crawl_single_page: get_robots_delay and http_client.fetch
Fetch ==
    /\ pc = "fetch"
    /\ \E outs \in [1..(max_retries + 1) -> AttemptOutcomes] :
        LET robots_delay == get_robots_delay(safety, url_item.url)
            f == fetch(http_stats, domain_buckets, now, url_item.url,
                       robots_delay, outs)
        IN
        /\ http_stats' = f.stats
        /\ domain_buckets' = f.buckets
        /\ now' = Min(f.t, MaxTime)
        /\ last_fetch' = FetchRecord(url_item.url, robots_delay, outs, f)
        /\ fetch_calls' = fetch_calls \cup
                            {[url |-> url_item.url, depth |-> url_item.depth,
                              checked |-> checked]}
        /\ net' = [net EXCEPT !.fetches = @ + 1,
                              !.waits = @ + Count(f.log, "wait_if_needed"),
                              !.page_gets = @ + Count(f.log, "GET")]
        /\ response' = f.response
        /\ stats' = CASE f.result = "raise" -> on_page_error(stats)
                      [] f.result = "none" -> on_page_skipped(stats)
                      [] OTHER -> stats
        /\ pc' = IF f.result = "response" THEN "process" ELSE "loop"
    /\ UNCHANGED <<config_vars, thread_vars, frontier_vars, base, last_bucket_call,
                   url_item, crawl_results, safety, checked, blocked,
                   safety_hist, report>>

\* _crawl_single_page: `if not response.is_html`
SkipNonHtml ==
    /\ pc = "process"
    /\ ~is_html(response)
    /\ stats' = on_page_skipped(stats)
    /\ pc' = "loop"
    /\ UNCHANGED <<config_vars, thread_vars, frontier_vars, bucket_vars, url_item, response,
                   crawl_results, safety, http_stats, checked, fetch_calls,
                   blocked, net, last_fetch,
                   safety_hist, report>>

\* _crawl_single_page on an HTML page: count it, extract the links, store
\* the record, queue the links
RecordPage ==
    /\ pc = "process"
    /\ is_html(response)
    /\ \E links \in LinkLists :
        /\ stats' = [stats EXCEPT !.pages_crawled = @ + 1,
                                  !.links_discovered = @ + Len(links)]
        /\ crawl_results' =
             (url_item.url :> [depth |-> url_item.depth,
                               parent_url |-> url_item.parent_url,
                               status_code |-> response.status_code,
                               content_type |-> response.content_type,
                               links_found |-> Len(links)]) @@ crawl_results
        /\ url_queue' = enqueue_links(url_queue, links, url_item)
    /\ pc' = "loop"
    /\ UNCHANGED <<config_vars, thread_vars, frontier_hist, bucket_vars, url_item, response,
                   safety, http_stats, checked, fetch_calls, blocked, net,
                   last_fetch,
                   safety_hist, report>>

\* KeyboardInterrupt raised between two steps of the crawl:
\* `except KeyboardInterrupt: ... return self._generate_report()`
Interrupt ==
    /\ pc \in {"start", "loop", "check", "fetch", "process"}
    /\ report' = generate_report(crawl_results, stats, url_queue, safety,
                                 http_stats)
    /\ pc' = "interrupted"
    /\ UNCHANGED <<config_vars, thread_vars, frontier_vars, bucket_vars, url_item, response,
                   crawl_results, stats, safety, http_stats, checked,
                   fetch_calls, blocked, net, last_fetch, safety_hist>>

\* KeyboardInterrupt raised in _crawl_single_page on an HTML page after
\* `self.stats['pages_crawled'] += 1` and before the record is stored
InterruptInRecord ==
    /\ pc = "process"
    /\ is_html(response)
    /\ stats' = [stats EXCEPT !.pages_crawled = @ + 1]
    /\ report' = generate_report(crawl_results, stats', url_queue, safety,
                                 http_stats)
    /\ pc' = "interrupted"
    /\ UNCHANGED <<config_vars, thread_vars, frontier_vars, bucket_vars, url_item, response,
                   crawl_results, safety, http_stats, checked, fetch_calls,
                   blocked, net, last_fetch, safety_hist>>

\* An exception raised in crawl() outside the try block around
\* _crawl_single_page (in add_url, in the loop test, in get_next_url, in
\* the logging of the per-URL handler):
\* `except Exception as e: ... raise SpiderError(f"Crawl failed: {e}")`
InternalFault ==
    /\ pc \in {"start", "loop"}
    /\ pc' = "failed"
    /\ UNCHANGED <<config_vars, thread_vars, frontier_vars, bucket_vars, url_item, response,
                   crawl_results, stats, safety, http_stats, checked,
                   fetch_calls, blocked, net, last_fetch, safety_hist,
                   report>>

Next == Start \/ Dequeue \/ Finish \/ PreCrawlCheck \/ Fetch \/ SkipNonHtml
        \/ RecordPage \/ Interrupt \/ InterruptInRecord \/ InternalFault

Spec == InitCrawl /\ [][Next]_vars

(***************************************************************************)
(* Claims on the crawl loop, checked under Spec.                           *)
(***************************************************************************)
\* C1: a page fetch is issued for a URL only after pre_crawl_check on that
\* URL and its depth returned allow in the same loop iteration, and a URL
\* for which pre_crawl_check returned blocked is never fetched.
C1_FetchOnlyAfterAllow ==
    /\ \A c \in fetch_calls :
          c.checked = [url |-> c.url, depth |-> c.depth, ok |-> TRUE]
    /\ \A c \in fetch_calls : \A b \in blocked : b[1] # c.url
    /\ pc = "fetch" =>
          checked = [url |-> url_item.url, depth |-> url_item.depth,
                     ok |-> TRUE]

\* C1 happens: a URL was blocked and skipped, another one was fetched.
C1_Witness ==
    /\ blocked # {}
    /\ fetch_calls # {}
    /\ stats.pages_skipped >= Cardinality(blocked)

\* C2: in every reachable state of a crawl, pages_crawled and the size of
\* crawl_results never exceed the configured max_pages.
C2_MaxPages ==
    /\ stats.pages_crawled <= max_pages
    /\ Cardinality(DOMAIN crawl_results) <= max_pages

\* C2 happens: the crawl ended on the page budget with URLs still queued.
C2_Witness ==
    /\ pc = "done"
    /\ stats.pages_crawled = max_pages
    /\ Cardinality(DOMAIN crawl_results) = max_pages
    /\ ~is_empty(url_queue)

\* C3: no stored record has a depth greater than max_depth: the seed is
\* recorded at depth 0, and the children of a page at depth d are queued at
\* depth d + 1, and only when d + 1 <= max_depth.
C3_DepthBounded ==
    /\ \A u \in DOMAIN crawl_results : crawl_results[u].depth <= max_depth
    /\ normalize_url(start_url) \in DOMAIN crawl_results =>
          crawl_results[normalize_url(start_url)].depth = 0
    /\ \A i \in 1..Len(url_queue.queue) :
          LET item == url_queue.queue[i] IN
          /\ item.depth <= max_depth
          /\ item.parent_url # None =>
                /\ item.parent_url \in DOMAIN crawl_results
                /\ item.depth = crawl_results[item.parent_url].depth + 1

\* C3 happens: a page at depth max_depth > 0 was recorded with links on it,
\* and none of them was queued.
C3_Witness ==
    /\ max_depth > 0
    /\ pc = "loop"
    /\ url_item # None
    /\ url_item.url \in DOMAIN crawl_results
    /\ crawl_results[url_item.url].depth = max_depth
    /\ crawl_results[url_item.url].links_found > 0
    /\ \A i \in 1..Len(url_queue.queue) :
          url_queue.queue[i].parent_url # url_item.url

\* C10 as stated: every request the crawler sends (first page attempt,
\* every retry attempt, every robots.txt fetch) has a wait_if_needed call of
\* its own before it.
C10_EveryRequestGated ==
    net.page_gets + net.robots_gets <= net.waits

\* C10, amended: every fetch call makes exactly one wait_if_needed call, for
\* the domain of its URL and before its first GET; the retry attempts of the
\* call follow their backoff sleep with no wait_if_needed call of their own.
C10_FirstAttemptGated ==
    /\ net.waits = net.fetches
    /\ last_fetch # None =>
          LET log == last_fetch.log
              domain == extract_domain(last_fetch.url)
          IN
          /\ Len(log) >= 2
          /\ log[1] = Wait(domain)
          /\ log[2] = Get(0, domain)
          /\ \A i \in 2..Len(log) : log[i].ev # "wait_if_needed"
          /\ \A i \in 2..Len(log) : log[i].ev = "GET" => log[i].domain = domain
          /\ \A i \in 3..Len(log) : log[i].ev = "GET" => log[i - 1].ev = "sleep"

\* C10 happens: robots.txt was requested, and a fetch sent a retry.
C10_Witness ==
    /\ net.robots_gets >= 1
    /\ last_fetch # None
    /\ Count(last_fetch.log, "GET") >= 2
    /\ net.page_gets + net.robots_gets > net.waits

(***************************************************************************)
(* SpecSafety: any sequence of pre_crawl_check calls on the SafetyManager  *)
(* that LegalSpider.__init__ constructs, on URLs of two domains and of     *)
(* every kind the URL filter tells apart.                                  *)
(***************************************************************************)
MaxChecks == 2      \* pre_crawl_check is called at most MaxChecks times

SafetyURLs ==
    SiteURLs \cup
    {URL("ftp", SiteDomain, "/a", ""), SiteURL("/admin/x"), SiteURL("/long"),
     URL("https", "other.org", "/a", ""), URL("https", "other.org", "/b", ""),
     URL("https", "", "/a", "")}

InitSafety ==
    /\ ThreadsIdle
    /\ spec_kind = "safety"
    /\ max_pages = 1
    /\ max_depth \in 0..MaxDepth
    /\ max_retries = MaxRetries
    /\ FrontierIdle
    /\ BucketIdle
    /\ CrawlIdle

\* pre_crawl_check(url, depth)
PreCrawlCheckCall ==
    /\ spec_kind = "safety"
    /\ safety.stats.urls_checked < MaxChecks
    /\ \E url \in SafetyURLs, depth \in 0..(MaxDepth + 1),
          outcome \in RobotsOutcomes :
        LET r == pre_crawl_check(safety, url, depth, outcome) IN
        /\ safety' = r.s
        /\ last_check' = CheckRecord(safety, url, depth, outcome, r)
        /\ robots_requests' = Requested(robots_requests, url, outcome, r)
    /\ UNCHANGED <<config_vars, thread_vars, frontier_vars, bucket_vars, pc, url_item,
                   response, crawl_results, stats, http_stats, checked,
                   fetch_calls, blocked, net, last_fetch, report>>

NextSafety == PreCrawlCheckCall

SpecSafety == InitSafety /\ [][NextSafety]_vars

\* the change of one counter of SafetyManager.stats over the last call
Delta(counter) == safety.stats[counter] - last_check.before.stats[counter]

\* C14: pre_crawl_check runs the URL filter, then the robots check, then
\* the auth check; the first check that fails ends the call and increments
\* its own counter and urls_blocked and no other, so that urls_blocked =
\* filter_blocks + robots_blocks + auth_blocks in every reachable state.
C14_BlockCounters ==
    /\ safety.stats.urls_blocked =
          safety.stats.filter_blocks + safety.stats.robots_blocks
          + safety.stats.auth_blocks
    /\ last_check # None =>
          LET c == last_check
              passes == should_crawl(c.url, c.depth)
              auth == is_auth_protected(c.url)
          IN
          /\ Delta("urls_checked") = 1
          /\ ~passes => c.stage = "filter"
          /\ c.stage = "filter" => ~passes /\ ~c.robots_fetched
          /\ c.stage = "robots" => passes
          /\ c.stage = "auth" => passes /\ auth
          /\ c.stage = "allow" => passes /\ ~auth
          /\ c.ok = (c.stage = "allow")
          /\ Delta("filter_blocks") = (IF c.stage = "filter" THEN 1 ELSE 0)
          /\ Delta("robots_blocks") = (IF c.stage = "robots" THEN 1 ELSE 0)
          /\ Delta("auth_blocks") = (IF c.stage = "auth" THEN 1 ELSE 0)
          /\ Delta("urls_blocked") = (IF c.stage = "allow" THEN 0 ELSE 1)

\* C14 happens: robots.txt has refused one URL, and the auth check another
\* one that the filter and the cached robots.txt let pass.
C14_Witness ==
    /\ safety.stats.robots_blocks = 1
    /\ safety.stats.auth_blocks = 1
    /\ safety.stats.urls_blocked = 2
    /\ last_check # None
    /\ last_check.stage = "auth"
    /\ extract_domain(last_check.url) \in DOMAIN safety.robots_cache

\* C15: if the URL filter rejects a URL (extension, path, scheme, length
\* or depth > max_depth), pre_crawl_check returns blocked before any
\* network call: robots.txt is not requested, and the robots cache and the
\* fetch-error set are as they were.
C15_FilterBeforeNetwork ==
    (last_check # None /\ ~should_crawl(last_check.url, last_check.depth)) =>
        /\ ~last_check.ok
        /\ ~last_check.robots_fetched
        /\ safety.robots_cache = last_check.before.robots_cache
        /\ safety.fetch_errors = last_check.before.fetch_errors
        /\ Delta("robots_blocks") = 0

\* C15 happens: the filter refused a URL of a domain whose robots.txt was
\* never requested, for its depth alone.
C15_Witness ==
    /\ last_check # None
    /\ last_check.stage = "filter"
    /\ is_safe_url(last_check.url)
    /\ last_check.depth > max_depth
    /\ extract_domain(last_check.url) # ""
    /\ extract_domain(last_check.url) \notin DOMAIN safety.robots_cache
    /\ extract_domain(last_check.url) \notin safety.fetch_errors
    /\ extract_domain(last_check.url) \notin DOMAIN robots_requests

\* C16: in a session robots.txt is requested at most once per domain,
\* whether the request succeeded or failed, and a robots cache entry, once
\* made, is never removed or replaced.
C16_RobotsFetchedOnce ==
    /\ \A d \in DOMAIN robots_requests : Len(robots_requests[d]) <= 1
    /\ last_check # None =>
          \A d \in DOMAIN last_check.before.robots_cache :
              /\ d \in DOMAIN safety.robots_cache
              /\ safety.robots_cache[d] = last_check.before.robots_cache[d]

\* C16 happens: a domain whose robots.txt was requested before, with or
\* without success, was checked again, with no new request.
C16_Witness ==
    /\ last_check # None
    /\ last_check.stage # "filter"
    /\ ~last_check.robots_fetched
    /\ extract_domain(last_check.url) \in DOMAIN robots_requests

\* robots.txt of the domain was requested and the request failed: read()
\* raised, or the server answered with a 5xx status
RobotsFailed(domain) ==
    /\ domain \in DOMAIN robots_requests
    /\ \E i \in 1..Len(robots_requests[domain]) :
          \/ ~robots_requests[domain][i].ok
          \/ robots_requests[domain][i].status >= 500

\* C17: if fetching or parsing robots.txt of a domain fails, can_fetch
\* returns allowed for that URL and for every later URL of the domain, and
\* the request is not made again.
C17_RobotsFailOpen ==
    (/\ last_check # None
     /\ last_check.stage # "filter"
     /\ RobotsFailed(extract_domain(last_check.url))) =>
        /\ last_check.stage # "robots"
        /\ Len(robots_requests[extract_domain(last_check.url)]) = 1

(***************************************************************************)
(* SpecClient: a fetch call on the HTTPClient as HTTPClient.__init__       *)
(* constructs it, with and without a custom delay, on a URL of either of   *)
(* two domains, whatever the server answers.                               *)
(* SpecLimiter: any sequence of wait_if_needed calls on the                *)
(* DomainRateLimiter of that client, with and without a custom delay.      *)
(***************************************************************************)
MaxCalls == 6       \* wait_if_needed is called at most MaxCalls times

ClientURLs == {SiteURL("/a"), URL("https", "other.org", "/a", "")}
Delays == {NoDelay, 0, 1}       \* custom_delay: None, 0.0 or 1.0 second

InitClient ==
    /\ ThreadsIdle
    /\ spec_kind = "client"
    /\ max_pages = 1
    /\ max_depth = 0
    /\ max_retries \in 0..MaxRetries
    /\ FrontierIdle
    /\ BucketIdle
    /\ CrawlIdle

\* http_client.fetch(url, custom_delay), the first call on the client;
\* outs holds what each GET brings
FetchCall ==
    /\ spec_kind = "client"
    /\ last_fetch = None
    /\ \E url \in ClientURLs, custom_delay \in Delays,
          outs \in [1..(MaxRetries + 2) -> AttemptOutcomes] :
        LET f == fetch(http_stats, domain_buckets, now, url, custom_delay, outs)
        IN
        /\ http_stats' = f.stats
        /\ domain_buckets' = f.buckets
        /\ now' = f.t
        /\ last_fetch' = FetchRecord(url, custom_delay, outs, f)
        /\ net' = [net EXCEPT !.fetches = @ + 1,
                              !.page_gets = @ + Count(f.log, "GET")]
    /\ UNCHANGED <<config_vars, thread_vars, frontier_vars, bucket_hist, pc, url_item,
                   response, crawl_results, stats, safety, checked,
                   fetch_calls, blocked, safety_hist, report>>

NextClient == FetchCall

SpecClient == InitClient /\ [][NextClient]_vars

InitLimiter ==
    /\ ThreadsIdle
    /\ spec_kind = "limiter"
    /\ max_pages = 1
    /\ max_depth = 0
    /\ max_retries = MaxRetries
    /\ FrontierIdle
    /\ BucketIdle
    /\ CrawlIdle

\* rate_limiter.wait_if_needed(domain, custom_delay)
WaitIfNeededCall ==
    /\ spec_kind = "limiter"
    /\ net.waits < MaxCalls
    /\ now < MaxTime
    /\ \E url \in ClientURLs, custom_delay \in Delays :
        LET domain == extract_domain(url)
            w == wait_if_needed(domain_buckets, now, domain, custom_delay)
        IN
        /\ domain_buckets' = w.buckets
        /\ now' = w.t
        /\ last_bucket_call' = [op |-> "wait_if_needed", domain |-> domain,
                                custom_delay |-> custom_delay,
                                before |-> domain_buckets, t0 |-> now]
        /\ net' = [net EXCEPT !.waits = @ + 1]
    /\ UNCHANGED <<config_vars, thread_vars, frontier_vars, base, pc, url_item, response,
                   crawl_results, stats, safety, http_stats, checked,
                   fetch_calls, blocked, last_fetch, safety_hist, report>>

NextLimiter == WaitIfNeededCall

SpecLimiter == InitLimiter /\ [][NextLimiter]_vars

\* the last call was wait_if_needed(domain, custom_delay): it slept exactly
\* custom_delay and left the domain's bucket as it was (as TokenBucket()
\* made it, if the call made it)
SleptOnly(c) ==
    /\ now - c.t0 = c.custom_delay * TicksPerSecond
    /\ domain_buckets[c.domain] =
          IF c.domain \in DOMAIN c.before THEN c.before[c.domain]
          ELSE TokenBucket(BurstCapacity, requests_per_second, c.t0)

C12_AttemptsBounded ==
    /\ last_fetch # None => Count(last_fetch.log, "GET") <= max_retries + 1
    /\ net.page_gets <= net.fetches * (max_retries + 1)

\* C12 happens: a fetch used every attempt, retries among them.
C12_Witness ==
    /\ max_retries >= 1
    /\ last_fetch # None
    /\ Count(last_fetch.log, "GET") = max_retries + 1
    /\ Count(last_fetch.log, "sleep") = max_retries

\* C13: when all attempts are used up and the last attempt ended in a
\* status code that is not 200, fetch returns no result and raises no
\* error; fetch raises HTTPError on exhaustion only when the last attempt
\* ended in a transport exception.
C13_ExhaustionOutcome ==
    (last_fetch # None
       /\ Count(last_fetch.log, "GET") = max_retries + 1
       /\ last_fetch.last.kind = "status"
       /\ last_fetch.last.code # 200) =>
        last_fetch.result = "none"

(***************************************************************************)
(* Claims on error handling in the crawl loop, checked under Spec.         *)
(***************************************************************************)
\* C18: when processing one dequeued URL raises an exception (HTTPError
\* from fetch), errors_encountered increases by exactly 1 and nothing else
\* of the statistics and records changes, the session is not aborted, and
\* the loop goes on to the next item while the frontier is non-empty and
\* the page budget is not reached.
C18_PageErrorCounted ==
    [][/\ (net'.fetches = net.fetches + 1 /\ last_fetch'.result = "raise") =>
            /\ stats' = [stats EXCEPT !.errors_encountered = @ + 1]
            /\ crawl_results' = crawl_results
            /\ pc' = "loop"
            /\ report' = None
       /\ (pc = "loop" /\ ~is_empty(url_queue)
             /\ stats.pages_crawled < max_pages) =>
            pc' \in {"loop", "check", "interrupted", "failed"}
       /\ (pc = "loop" /\ pc' = "check") =>
            url_item' = url_queue.queue[1]
      ]_vars

\* C18 happens: a fetch raised, the error was counted, and the loop has
\* taken the next item.
C18_Witness ==
    /\ last_fetch # None
    /\ last_fetch.result = "raise"
    /\ stats.errors_encountered = 1
    /\ pc = "check"
    /\ url_item.url # last_fetch.url

\* C19: on a KeyboardInterrupt raised at any point of the crawl loop,
\* crawl stops dequeuing and returns a report that holds every record and
\* counter accumulated up to that point.
C19_InterruptReport ==
    /\ [](pc = "interrupted" =>
            /\ report # None
            /\ report.crawl_results = crawl_results
            /\ report.summary = stats
            /\ report.safety_stats = safety.stats
            /\ report.http_stats = http_stats
            /\ report.queue_stats.queue_size = Len(url_queue.queue)
            /\ report.queue_stats.visited_count
                  = Cardinality(url_queue.visited))
    /\ [][pc # "interrupted"]_vars

\* C19 happens: the crawl was interrupted with a page recorded, a page
\* counted and not yet recorded, and URLs still queued.
C19_Witness ==
    /\ pc = "interrupted"
    /\ report # None
    /\ DOMAIN report.crawl_results # {}
    /\ report.summary.pages_crawled > Cardinality(DOMAIN report.crawl_results)
    /\ report.queue_stats.queue_size > 0

\* C20: when an unexpected internal fault (not a per-URL failure) aborts
\* the session, the partial report accumulated so far is returned to the
\* caller.
C20_FaultReport ==
    pc = "failed" =>
        /\ report # None
        /\ report.crawl_results = crawl_results

(***************************************************************************)
(* Claims on the outcome of a dequeued URL, checked under Spec.            *)
(***************************************************************************)
\* C21: a successfully fetched response whose content type is not HTML
\* (image/png) adds 1 to pages_skipped and is never passed to link
\* extraction: no record is stored for it, pages_crawled and
\* links_discovered stay as they are and no URL is queued.
C21_NonHtmlSkipped ==
    /\ [](\A u \in DOMAIN crawl_results :
             crawl_results[u].content_type # "image/png")
    /\ [][(pc = "process" /\ response.content_type = "image/png") =>
            /\ crawl_results' = crawl_results
            /\ url_queue' = url_queue
            /\ stats'.pages_crawled = stats.pages_crawled
            /\ stats'.links_discovered = stats.links_discovered
            /\ pc' \in {"loop", "interrupted"}
            /\ pc' = "loop" =>
                  stats' = [stats EXCEPT !.pages_skipped = @ + 1]
         ]_vars

\* C21 happens: the page fetched after a recorded page was an image, and
\* was skipped.
C21_Witness ==
    /\ pc = "loop"
    /\ response # None
    /\ response.content_type = "image/png"
    /\ stats.pages_crawled = 1
    /\ stats.pages_skipped = 1
    /\ url_item.url \notin DOMAIN crawl_results
    /\ url_item.parent_url \in DOMAIN crawl_results

\* C22: every dequeued URL reaches exactly one terminal outcome: whenever
\* the crawl loop is between two iterations, and after a crawl that ended
\* without interruption, visited_count = pages_crawled + pages_skipped +
\* errors_encountered.
C22_OutcomesAccounted ==
    /\ pc \in {"loop", "done"} =>
          Cardinality(url_queue.visited)
            = stats.pages_crawled + stats.pages_skipped
              + stats.errors_encountered
    /\ pc = "done" =>
          report.queue_stats.visited_count
            = report.summary.pages_crawled + report.summary.pages_skipped
              + report.summary.errors_encountered

\* C22 happens: a crawl ended with a page recorded, a page skipped and a
\* page that raised.
C22_Witness ==
    /\ pc = "done"
    /\ stats.pages_crawled >= 1
    /\ stats.pages_skipped >= 1
    /\ stats.errors_encountered >= 1
    /\ Cardinality(url_queue.visited) = 3

(***************************************************************************)
(* SpecNormalize: normalize_url called on one URL string.                  *)
(***************************************************************************)
InitNormalize ==
    /\ ThreadsIdle
    /\ spec_kind = "normalize"
    /\ max_pages = 1
    /\ max_depth = 0
    /\ max_retries = MaxRetries
    /\ url_queue = NewURLQueue(0)
    /\ accepted = <<>>
    /\ returned = <<>>
    /\ visited_adds = [u \in NormURLs |-> 0]
    /\ \E s \in URLStrings : last_call = [op |-> "input", url |-> s]
    /\ BucketIdle
    /\ CrawlIdle

\* normalize_url(url)
NormalizeUrlCall ==
    /\ spec_kind = "normalize"
    /\ last_call.op = "input"
    /\ last_call' = [op |-> "normalize_url", url |-> last_call.url,
                     result |-> normalize_url_string(last_call.url)]
    /\ UNCHANGED <<url_queue, accepted, returned, visited_adds, config_vars, thread_vars,
                   bucket_vars, crawl_vars>>

NextNormalize == NormalizeUrlCall

SpecNormalize == InitNormalize /\ [][NextNormalize]_vars

\* C23: URL normalization is idempotent: for every URL string u,
\* normalize_url(normalize_url(u)) = normalize_url(u).
C23_NormalizeIdempotent ==
    last_call.op = "normalize_url" =>
        normalize_url_string(last_call.result) = last_call.result

(***************************************************************************)
(* Threads.  Several threads call into one TokenBucket (SpecBucketThreads) *)
(* or one DomainRateLimiter (SpecLimiterThreads); a step of a thread is a  *)
(* stretch of code no other thread can be seen in the middle of.  A        *)
(* TokenBucket object is heap[i] = [b, lock]: the bucket and the thread    *)
(* that holds its threading.Lock (NoThread: none).  A thread is            *)
(*   [pc, op, n, ref, ok, calls, granted, contended, before, at, caller,   *)
(*    domain, wait, wake]:                                                 *)
(* ref the object it works on, ok what consume is to return, calls the     *)
(* calls it made, granted the units its consumes took, contended whether   *)
(* the lock was held when it called, before and at the bucket and the time *)
(* its consume found; in wait_if_needed (caller), domain its argument,     *)
(* wait what wait_time returned and wake the time its sleep ends; in       *)
(* can_fetch, url its argument, outcome what rp.read() brought and allowed *)
(* what the call returned; took the tokens the call has taken, sleeps the  *)
(* times it has slept, and grants the units its calls of wait_if_needed    *)
(* took for each domain.                                                   *)
(***************************************************************************)
NumThreads == 2         \* threads
MaxThreadCalls == 2     \* calls a thread makes
MaxThreadTime == 2      \* the clock of the threads stops at MaxThreadTime ticks
RateCalls == 3          \* calls a thread makes in SpecRateThreads

Threads == 1..NumThreads
NoThread == 0

NewThread ==
    [pc |-> "idle", op |-> "none", n |-> 0, ref |-> 0, ok |-> FALSE,
     calls |-> 0, granted |-> 0, contended |-> FALSE, before |-> None,
     at |-> 0, caller |-> "none", domain |-> "", wait |-> 0, wake |-> 0,
     url |-> None, outcome |-> None, allowed |-> FALSE, took |-> 0,
     sleeps |-> 0,
     grants |-> [d \in {extract_domain(u) : u \in ClientURLs} |-> 0]]

\* the calls one thread makes: MaxCalls when it runs alone (SpecWaitLoop)
ThreadCalls ==
    CASE spec_kind = "wait_loop" -> MaxCalls
      [] spec_kind = "rate_threads" -> RateCalls
      [] OTHER -> MaxThreadCalls

\* a lock that is never held.
lock_free_always(o) == TRUE

\* `with self.lock:` enters when no thread holds the lock
lock_free(o) == o.lock = NoThread

InitBucketThreads ==
    /\ spec_kind = "bucket_threads"
    /\ max_pages = 1
    /\ max_depth = 0
    /\ max_retries = MaxRetries
    /\ FrontierIdle
    /\ BucketIdle
    /\ CrawlIdle
    /\ \E capacity \in {1, 2}, refill_rate \in Rates :
         heap = <<[b |-> TokenBucket(capacity, refill_rate, 0),
                   lock |-> NoThread]>>
    /\ bucket_ids = <<>>
    /\ threads = [t \in Threads |-> NewThread]

\* time passes while the threads run
ThreadsTick ==
    /\ now < MaxThreadTime
    /\ now' = now + 1
    /\ UNCHANGED <<domain_buckets, base, last_bucket_call, config_vars,
                   thread_vars, frontier_vars, crawl_vars>>

\* a thread calls bucket.consume(n)
CallConsume(t) ==
    /\ threads[t].pc = "idle"
    /\ threads[t].calls < MaxThreadCalls
    /\ \E n \in 1..MaxConsume :
         threads' = [threads EXCEPT ![t] =
                       [@ EXCEPT !.pc = "acquire", !.op = "consume", !.n = n,
                                 !.ref = 1, !.ok = FALSE, !.calls = @ + 1,
                                 !.took = 0,
                                 !.contended = (heap[1].lock # NoThread)]]
    /\ UNCHANGED <<heap, bucket_ids, config_vars, frontier_vars, bucket_vars,
                   crawl_vars>>

\* a thread calls bucket.wait_time(n)
CallWaitTime(t) ==
    /\ threads[t].pc = "idle"
    /\ threads[t].calls < MaxThreadCalls
    /\ \E n \in 1..MaxConsume :
         threads' = [threads EXCEPT ![t] =
                       [@ EXCEPT !.pc = "acquire", !.op = "wait_time",
                                 !.n = n, !.ref = 1, !.ok = FALSE,
                                 !.calls = @ + 1, !.took = 0,
                                 !.contended = (heap[1].lock # NoThread)]]
    /\ UNCHANGED <<heap, bucket_ids, config_vars, frontier_vars, bucket_vars,
                   crawl_vars>>

\* `with self.lock:` of consume and of wait_time
LockAcquire(t) ==
    LET th == threads[t] IN
    /\ th.pc = "acquire"
    /\ lock_free(heap[th.ref])
    /\ heap' = [heap EXCEPT ![th.ref].lock = t]
    /\ threads' = [threads EXCEPT ![t] =
                     [@ EXCEPT !.pc = IF th.op = "consume" THEN "refill"
                                      ELSE "read",
                               !.before = heap[th.ref].b]]
    /\ UNCHANGED <<bucket_ids, config_vars, frontier_vars, bucket_vars,
                   crawl_vars>>

\* consume: now = time.time(); tokens = min(capacity, tokens + elapsed *
\* refill_rate); last_refill = now
Refill(t) ==
    LET th == threads[t]
        b == heap[th.ref].b
    IN
    /\ th.pc = "refill"
    /\ heap' = [heap EXCEPT ![th.ref].b =
                   [b EXCEPT !.tokens = Min(b.capacity,
                                            b.tokens + (now - b.last_refill)
                                                         * b.refill_rate),
                             !.last_refill = now]]
    /\ threads' = [threads EXCEPT ![t] = [@ EXCEPT !.pc = "test", !.at = now]]
    /\ UNCHANGED <<bucket_ids, config_vars, frontier_vars, bucket_vars,
                   crawl_vars>>

\* consume: `if self.tokens >= tokens:`
TestTokens(t) ==
    LET th == threads[t] IN
    /\ th.pc = "test"
    /\ threads' = [threads EXCEPT ![t] =
                     [@ EXCEPT !.pc = IF heap[th.ref].b.tokens
                                         >= th.n * heap[th.ref].b.token
                                      THEN "take" ELSE "release"]]
    /\ UNCHANGED <<heap, bucket_ids, config_vars, frontier_vars, bucket_vars,
                   crawl_vars>>

\* consume: `self.tokens -= tokens; return True`
TakeTokens(t) ==
    LET th == threads[t] IN
    /\ th.pc = "take"
    /\ heap' = [heap EXCEPT ![th.ref].b.tokens =
                                @ - th.n * heap[th.ref].b.token]
    /\ threads' = [threads EXCEPT ![t] =
                     [@ EXCEPT !.pc = "release", !.ok = TRUE,
                               !.took = @ + th.n,
                               !.grants =
                                  IF th.domain \in DOMAIN @
                                  THEN [@ EXCEPT ![th.domain] =
                                          @ + th.n * heap[th.ref].b.token]
                                  ELSE @,
                               !.granted = @ + th.n * heap[th.ref].b.token]]
    /\ UNCHANGED <<bucket_ids, config_vars, frontier_vars, bucket_vars,
                   crawl_vars>>

\* wait_time: the tokens are read under the lock
ReadWaitTime(t) ==
    LET th == threads[t] IN
    /\ th.pc = "read"
    /\ threads' = [threads EXCEPT ![t] =
                     [@ EXCEPT !.pc = "release",
                               !.wait = wait_time(heap[th.ref].b, th.n)]]
    /\ UNCHANGED <<heap, bucket_ids, config_vars, frontier_vars, bucket_vars,
                   crawl_vars>>

\* a sleep of the whole wait_time, with no cap.
sleep_time_uncapped(wait) == wait

\* wait_if_needed: `min(wait_time, 1.0)`, the argument of time.sleep
sleep_time(wait) == Min(wait, TicksPerSecond)

\* the end of the `with` block: the lock is released and the call returns.
\* In wait_if_needed, `while not bucket.consume():` ends on True; on False
\* bucket.wait_time() is called, and after it time.sleep(min(wait_time, 1.0))
LockRelease(t) ==
    LET th == threads[t] IN
    /\ th.pc = "release"
    /\ heap' = [heap EXCEPT ![th.ref].lock = NoThread]
    /\ threads' = [threads EXCEPT ![t] =
         CASE th.caller # "wait_if_needed" -> [@ EXCEPT !.pc = "idle"]
           [] th.op = "consume" /\ th.ok -> [@ EXCEPT !.pc = "idle"]
           [] th.op = "consume" /\ ~th.ok ->
                [@ EXCEPT !.pc = "acquire", !.op = "wait_time"]
           [] OTHER ->
                [@ EXCEPT !.pc = "sleep", !.sleeps = @ + 1,
                          !.wake = now + sleep_time(th.wait)]]
    /\ UNCHANGED <<bucket_ids, config_vars, frontier_vars, bucket_vars,
                   crawl_vars>>

NextBucketThreads ==
    \/ ThreadsTick
    \/ \E t \in Threads :
          \/ CallConsume(t) \/ CallWaitTime(t) \/ LockAcquire(t) \/ Refill(t)
          \/ TestTokens(t) \/ TakeTokens(t) \/ ReadWaitTime(t)
          \/ LockRelease(t)

SpecBucketThreads == InitBucketThreads /\ [][NextBucketThreads]_vars

\* the units all threads took from the buckets, by their successful consumes
RECURSIVE Granted(_)
Granted(ts) ==
    IF ts = {} THEN 0
    ELSE LET t == CHOOSE x \in ts : TRUE IN
         threads[t].granted + Granted(ts \ {t})

\* the steps of consume and wait_time made under the lock
InLock == {"refill", "test", "take", "read", "release"}

\* C24: mutation of a bucket is atomic under concurrency: in any
\* interleaving of concurrent consume (and wait_time) calls on one
\* TokenBucket, tokens never go negative, the tokens taken by successful
\* consumes never exceed the tokens there were (the initial ones and the
\* refill of the time passed), and each consume leaves the bucket as it
\* would alone: two consumers of a bucket that holds one token cannot both
\* succeed.
C24_ConsumeAtomic ==
    /\ \A i \in 1..Len(heap) :
          /\ heap[i].b.tokens >= 0
          /\ heap[i].b.tokens <= heap[i].b.capacity
    /\ Granted(Threads) + heap[1].b.tokens
          <= heap[1].b.capacity + now * heap[1].b.refill_rate
    /\ \A t, u \in Threads :
          (threads[t].pc \in InLock /\ threads[u].pc \in InLock) => t = u
    /\ \A t \in Threads :
          (threads[t].pc = "release" /\ threads[t].op = "consume") =>
              LET r == consume(threads[t].before, threads[t].at, threads[t].n)
              IN heap[1].b = r.b /\ threads[t].ok = r.ok

\* C24 happens: of two threads that called consume(1) at the same time on
\* a bucket holding one token, one was given the token and the other,
\* having waited for the lock, was refused.
C24_Witness ==
    /\ now = 0
    /\ heap[1].b.capacity = Units(1)
    /\ heap[1].b.tokens = 0
    /\ \E t, u \in Threads :
          /\ threads[t].pc = "idle" /\ threads[t].calls = 1
          /\ threads[t].op = "consume" /\ threads[t].ok
          /\ threads[u].pc = "release" /\ threads[u].calls = 1
          /\ threads[u].op = "consume" /\ ~threads[u].ok
          /\ threads[u].n = 1 /\ threads[u].contended

(***************************************************************************)
(* SpecLimiterThreads: threads call wait_if_needed, with no custom delay,  *)
(* on one DomainRateLimiter that has made no bucket yet.                   *)
(***************************************************************************)
LimiterDomains == {extract_domain(u) : u \in ClientURLs}

InitLimiterThreads ==
    /\ spec_kind = "limiter_threads"
    /\ max_pages = 1
    /\ max_depth = 0
    /\ max_retries = MaxRetries
    /\ FrontierIdle
    /\ BucketIdle
    /\ CrawlIdle
    /\ heap = <<>>
    /\ bucket_ids = <<>>
    /\ threads = [t \in Threads |-> NewThread]

\* a thread calls rate_limiter.wait_if_needed(domain)
CallWaitIfNeeded(t) ==
    /\ threads[t].pc = "idle"
    /\ threads[t].calls < ThreadCalls
    /\ \E domain \in LimiterDomains :
         threads' = [threads EXCEPT ![t] =
                       [@ EXCEPT !.pc = "lookup", !.op = "wait_if_needed",
                                 !.caller = "wait_if_needed",
                                 !.domain = domain, !.n = 1, !.ref = 0,
                                 !.ok = FALSE, !.calls = @ + 1,
                                 !.took = 0, !.sleeps = 0]]
    /\ UNCHANGED <<heap, bucket_ids, config_vars, frontier_vars, bucket_vars,
                   crawl_vars>>

\* `bucket = self.domain_buckets[domain]`: the key is looked up; if it is
\* there the bucket is at hand and `while not bucket.consume()` begins
Lookup(t) ==
    LET th == threads[t] IN
    /\ th.pc = "lookup"
    /\ threads' = [threads EXCEPT ![t] =
                     IF th.domain \in DOMAIN bucket_ids
                     THEN [@ EXCEPT !.pc = "acquire", !.op = "consume",
                                    !.ref = bucket_ids[th.domain]]
                     ELSE [@ EXCEPT !.pc = "missing"]]
    /\ UNCHANGED <<heap, bucket_ids, config_vars, frontier_vars, bucket_vars,
                   crawl_vars>>

\* defaultdict.__missing__ of a key that was not there: the factory
\* `lambda: TokenBucket(capacity=burst_capacity, refill_rate=default_rate)`
\* has run, its object is stored under the key and is the bucket at hand
Missing(t) ==
    LET th == threads[t]
        id == Len(heap) + 1
    IN
    /\ th.pc = "missing"
    /\ heap' = Append(heap, [b |-> TokenBucket(BurstCapacity,
                                               requests_per_second, now),
                             lock |-> NoThread])
    /\ bucket_ids' = (th.domain :> id) @@ bucket_ids
    /\ threads' = [threads EXCEPT ![t] =
                     [@ EXCEPT !.pc = "acquire", !.op = "consume",
                               !.ref = id]]
    /\ UNCHANGED <<config_vars, frontier_vars, bucket_vars, crawl_vars>>

NextLimiterThreads ==
    \/ ThreadsTick
    \/ \E t \in Threads :
          \/ CallWaitIfNeeded(t) \/ Lookup(t) \/ Missing(t)
          \/ LockAcquire(t) \/ Refill(t) \/ TestTokens(t) \/ TakeTokens(t)
          \/ LockRelease(t)

SpecLimiterThreads == InitLimiterThreads /\ [][NextLimiterThreads]_vars

\* C25: a domain's bucket is shared by all callers targeting that domain:
\* in any interleaving of concurrent wait_if_needed callers of one domain,
\* concurrent first references that make the bucket included, every
\* caller consumes from one and the same bucket, the one stored for the
\* domain.
C25_BucketShared ==
    \A t \in Threads :
        threads[t].ref # 0 =>
            /\ bucket_ids[threads[t].domain] = threads[t].ref
            /\ \A u \in Threads :
                  (threads[u].ref # 0
                     /\ threads[u].domain = threads[t].domain) =>
                      threads[u].ref = threads[t].ref

(***************************************************************************)
(* SpecWaitLoop: one thread calls wait_if_needed, with no custom delay, on *)
(* a DomainRateLimiter, and every step of the call is followed by the      *)
(* next.  The limiter is as constructed, or one domain has been given the  *)
(* rate of a token in SlowSeconds seconds by set_domain_rate.              *)
(***************************************************************************)
SlowSeconds == 2        \* set_domain_rate(domain, 1 / SlowSeconds)
LoopThread == 1

InitWaitLoop ==
    /\ spec_kind = "wait_loop"
    /\ max_pages = 1
    /\ max_depth = 0
    /\ max_retries = MaxRetries
    /\ FrontierIdle
    /\ BucketIdle
    /\ CrawlIdle
    /\ \/ heap = <<>> /\ bucket_ids = <<>>
       \/ \E domain \in LimiterDomains :
            /\ heap = <<[b |-> SlowTokenBucket(BurstCapacity, SlowSeconds, 0),
                         lock |-> NoThread]>>
            /\ bucket_ids = (domain :> 1)
    /\ threads = [t \in {LoopThread} |-> NewThread]

\* time.sleep returns, no sooner than asked, and `while not
\* bucket.consume():` is tested again
SleepEnds(t) ==
    LET th == threads[t] IN
    /\ th.pc = "sleep"
    /\ now' = IF now >= th.wake THEN now ELSE th.wake
    /\ threads' = [threads EXCEPT ![t] =
                     [@ EXCEPT !.pc = "acquire", !.op = "consume"]]
    /\ UNCHANGED <<heap, bucket_ids, domain_buckets, base, last_bucket_call,
                   config_vars, frontier_vars, crawl_vars>>

\* the steps of a call of wait_if_needed, from the lookup to the return
WaitLoopStep(t) ==
    \/ Lookup(t) \/ Missing(t) \/ LockAcquire(t) \/ Refill(t)
    \/ TestTokens(t) \/ TakeTokens(t) \/ ReadWaitTime(t) \/ LockRelease(t)
    \/ SleepEnds(t)

NextWaitLoop ==
    \/ ThreadsTick
    \/ CallWaitIfNeeded(LoopThread)
    \/ WaitLoopStep(LoopThread)

\* a thread that is in a call goes on running, and its sleep ends
SpecWaitLoop ==
    InitWaitLoop /\ [][NextWaitLoop]_vars /\ WF_vars(WaitLoopStep(LoopThread))

\* C30: without a custom delay, wait_if_needed returns only after one
\* successful consume of exactly one token from the domain's bucket, never
\* sleeps longer than 1 second at a time (it sleeps min(wait_time, 1
\* second) and tries again), and, the refill rate being positive, every
\* call eventually returns.
C30_WaitLoopReturns ==
    /\ [](threads[LoopThread].took <= 1)
    /\ [][(threads[LoopThread].pc # "idle"
             /\ threads'[LoopThread].pc = "idle") =>
            /\ threads'[LoopThread].ok
            /\ threads'[LoopThread].took = 1
            /\ threads'[LoopThread].n = 1
            /\ threads'[LoopThread].op = "consume"
            /\ threads'[LoopThread].ref
                 = bucket_ids'[threads'[LoopThread].domain]]_vars
    /\ [][(threads[LoopThread].pc # "sleep"
             /\ threads'[LoopThread].pc = "sleep") =>
            /\ threads'[LoopThread].wake - now <= TicksPerSecond
            /\ threads'[LoopThread].wake - now
                 = Min(threads[LoopThread].wait, TicksPerSecond)
            /\ ~threads[LoopThread].ok]_vars
    /\ [][(threads[LoopThread].pc = "sleep"
             /\ threads'[LoopThread].pc # "sleep") =>
            /\ now' >= threads[LoopThread].wake
            /\ threads'[LoopThread].pc = "acquire"
            /\ threads'[LoopThread].op = "consume"]_vars
    /\ (threads[LoopThread].pc = "lookup")
          ~> (threads[LoopThread].pc = "idle")

\* C30 happens: a call on the slow bucket, emptied by the calls before it,
\* found a wait_time of more than a second, slept a second twice and
\* returned with its one token.
C30_Witness ==
    /\ threads[LoopThread].pc = "idle"
    /\ threads[LoopThread].calls = MaxCalls
    /\ threads[LoopThread].ok
    /\ threads[LoopThread].took = 1
    /\ threads[LoopThread].sleeps = 2
    /\ threads[LoopThread].ref = 1
    /\ heap[1].b.token = Units(1) * SlowSeconds
    /\ heap[1].b.tokens = 0
    /\ now = 2 * TicksPerSecond

(***************************************************************************)
(* SpecRobotsThreads: threads call can_fetch on one RobotsChecker whose    *)
(* cache is empty.  The RobotsChecker has no lock; its steps are the two   *)
(* membership tests, rp.read() (a network request), and the store that     *)
(* follows it.                                                             *)
(***************************************************************************)
RobotsURLs == ClientURLs \cup {SiteURL("/b")}

InitRobotsThreads ==
    /\ spec_kind = "robots_threads"
    /\ max_pages = 1
    /\ max_depth = 0
    /\ max_retries = MaxRetries
    /\ FrontierIdle
    /\ BucketIdle
    /\ CrawlIdle
    /\ heap = <<>>
    /\ bucket_ids = <<>>
    /\ threads = [t \in Threads |-> NewThread]

\* a thread calls robots_checker.can_fetch(url)
CallCanFetch(t) ==
    /\ spec_kind = "robots_threads"
    /\ threads[t].pc = "idle"
    /\ threads[t].calls < MaxThreadCalls
    /\ \E url \in RobotsURLs :
         threads' = [threads EXCEPT ![t] =
                       [@ EXCEPT !.pc = "in_cache", !.op = "can_fetch",
                                 !.url = url, !.domain = extract_domain(url),
                                 !.outcome = None, !.calls = @ + 1]]
    /\ UNCHANGED <<heap, bucket_ids, config_vars, frontier_vars, bucket_vars,
                   crawl_vars>>

\* `if domain in self.robots_cache: return rp.can_fetch(user_agent, url)`
InCache(t) ==
    LET th == threads[t] IN
    /\ th.pc = "in_cache"
    /\ threads' = [threads EXCEPT ![t] =
                     IF th.domain \in DOMAIN safety.robots_cache
                     THEN [@ EXCEPT !.pc = "idle",
                                    !.allowed = rp_can_fetch(
                                        safety.robots_cache[th.domain], th.url)]
                     ELSE [@ EXCEPT !.pc = "in_errors"]]
    /\ UNCHANGED <<heap, bucket_ids, config_vars, frontier_vars, bucket_vars,
                   crawl_vars>>

\* `if domain in self.fetch_errors: return True`
InErrors(t) ==
    LET th == threads[t] IN
    /\ th.pc = "in_errors"
    /\ threads' = [threads EXCEPT ![t] =
                     IF th.domain \in safety.fetch_errors
                     THEN [@ EXCEPT !.pc = "idle", !.allowed = TRUE]
                     ELSE [@ EXCEPT !.pc = "read"]]
    /\ UNCHANGED <<heap, bucket_ids, config_vars, frontier_vars, bucket_vars,
                   crawl_vars>>

\* _fetch_robots_txt: rp.read() requests robots.txt
ReadRobots(t) ==
    LET th == threads[t]
        sent == IF th.domain \in DOMAIN robots_requests
                THEN robots_requests[th.domain] ELSE <<>>
    IN
    /\ th.pc = "read"
    /\ \E outcome \in RobotsOutcomes :
         /\ threads' = [threads EXCEPT ![t] =
                          [@ EXCEPT !.pc = "store", !.outcome = outcome]]
         /\ robots_requests' =
              (th.domain :> Append(sent, outcome)) @@ robots_requests
    /\ UNCHANGED <<heap, bucket_ids, config_vars, frontier_vars, bucket_vars,
                   pc, url_item, response, crawl_results, stats, safety,
                   http_stats, checked, fetch_calls, blocked, net, last_fetch,
                   last_check, report>>

\* _fetch_robots_txt after read(): `self.robots_cache[domain] = rp`, and
\* can_fetch calls itself; or, read() having raised,
\* `self.fetch_errors.add(domain)` and can_fetch returns True
StoreRobots(t) ==
    LET th == threads[t] IN
    /\ th.pc = "store"
    /\ IF th.outcome.ok
       THEN /\ safety' = [safety EXCEPT !.robots_cache =
                            (th.domain :> read_parser(th.outcome)) @@ @]
            /\ threads' = [threads EXCEPT ![t] =
                             [@ EXCEPT !.pc = "in_cache", !.outcome = None]]
       ELSE /\ safety' = [safety EXCEPT !.fetch_errors = @ \cup {th.domain}]
            /\ threads' = [threads EXCEPT ![t] =
                             [@ EXCEPT !.pc = "idle", !.allowed = TRUE,
                                       !.outcome = None]]
    /\ UNCHANGED <<heap, bucket_ids, config_vars, frontier_vars, bucket_vars,
                   pc, url_item, response, crawl_results, stats, http_stats,
                   checked, fetch_calls, blocked, net, last_fetch, last_check,
                   robots_requests, report>>

NextRobotsThreads ==
    \E t \in Threads :
        \/ CallCanFetch(t) \/ InCache(t) \/ InErrors(t) \/ ReadRobots(t)
        \/ StoreRobots(t)

SpecRobotsThreads == InitRobotsThreads /\ [][NextRobotsThreads]_vars

\* C26: the robots cache supports safe concurrent access: in any
\* interleaving of concurrent can_fetch calls for URLs of one domain,
\* robots.txt of the domain is requested at most once, and the domain never
\* ends up both cached and marked as a fetch error.
C26_RobotsCacheConcurrent ==
    /\ \A d \in DOMAIN robots_requests : Len(robots_requests[d]) <= 1
    /\ DOMAIN safety.robots_cache \cap safety.fetch_errors = {}

(***************************************************************************)
(* Claims on what the frontier holds (Spec), on a refused add_url          *)
(* (SpecFrontier) and on consume (SpecBucket).                             *)
(***************************************************************************)
\* C27: a frontier item is made only for a link that passed the depth and
\* URL-format checks of the safety gate: every item in the frontier queue
\* satisfies the URL filter (scheme, extension, excluded path, length) and
\* the depth limit.
C27_FrontierItemsFiltered ==
    \A i \in 1..Len(url_queue.queue) :
        /\ url_queue.queue[i].depth <= max_depth
        /\ is_safe_url(url_queue.queue[i].url)

\* C28: an add_url that is refused (the normalized URL is queued or
\* visited, or the queue holds max_size items) returns False and leaves
\* queue, in_queue and visited exactly as they were; no other add_url is
\* refused.
C28_RejectedAddNoMutation ==
    last_call.op = "add_url" =>
        LET before == last_call.before
            rejected == \/ last_call.url \in before.in_queue
                        \/ last_call.url \in before.visited
                        \/ Len(before.queue) >= before.max_size
        IN /\ last_call.ok = ~rejected
           /\ rejected => /\ url_queue.queue = before.queue
                           /\ url_queue.in_queue = before.in_queue
                           /\ url_queue.visited = before.visited
                           /\ url_queue = before

\* C28 happens: a URL that is waiting in a queue with room left, behind
\* another one, is passed to add_url again and refused.
C28_Witness ==
    /\ last_call.op = "add_url"
    /\ ~last_call.ok
    /\ last_call.url \in last_call.before.in_queue
    /\ last_call.url \notin last_call.before.visited
    /\ Len(last_call.before.queue) < last_call.before.max_size
    /\ Len(last_call.before.queue) >= 2
    /\ last_call.before.queue[1].url # last_call.url

\* C29: consume(n) first refills the bucket to min(capacity, tokens +
\* elapsed * rate); it returns True and lowers the tokens by exactly n if
\* and only if the refilled tokens are >= n, and otherwise returns False
\* and leaves the tokens at the refilled value.
C29_ConsumeRefillsThenTakes ==
    last_bucket_call.op = "consume" =>
        LET b == last_bucket_call.before
            n == last_bucket_call.n
            elapsed == last_bucket_call.at - b.last_refill
            sum == b.tokens + elapsed * b.refill_rate
            refilled == IF sum <= b.capacity THEN sum ELSE b.capacity
        IN /\ last_bucket_call.ok = (refilled >= Units(n))
           /\ last_bucket_call.ok => bucket.tokens = refilled - Units(n)
           /\ ~last_bucket_call.ok => bucket.tokens = refilled
           /\ bucket.last_refill = last_bucket_call.at
           /\ bucket.capacity = b.capacity
           /\ bucket.refill_rate = b.refill_rate

\* C29 happens: the refill brought a spent bucket to exactly the n tokens
\* asked for, and the consume took them all.
C29_Witness ==
    /\ last_bucket_call.op = "consume"
    /\ last_bucket_call.ok
    /\ last_bucket_call.before.tokens < Units(last_bucket_call.n)
    /\ last_bucket_call.at > last_bucket_call.before.last_refill
    /\ bucket.tokens = 0


(***************************************************************************)
(* SpecRetry: one call of _fetch_with_retry on a new HTTPClient, over what *)
(* each GET can bring: every class of status, the forms of the Retry-After *)
(* header of a 429, and the exceptions of session.get.                     *)
(***************************************************************************)
RetryBound == 2         \* config.max_retries ranges over 0..RetryBound

RetryOutcomes ==
    {Outcome("status", 200, ct, NoRetryAfter, 0) :
        ct \in {"text/html", SurrogateHtml}}
    \cup {Outcome("status", 404, "", NoRetryAfter, 0)}
    \cup {Outcome("status", 429, "", ra, 0) :
            ra \in {NoRetryAfter, RetryAfter(5), RetryAfter(400),
                    RetryAfter(-1), RetryAfterDate}}
    \cup {Outcome("status", 503, "", NoRetryAfter, j) :
            j \in {0, TicksPerSecond}}
    \cup {Outcome("status", 500, "", NoRetryAfter, 1)}
    \cup {Outcome("status", 304, "", NoRetryAfter, 0)}
    \cup {Outcome(kind, 0, "", NoRetryAfter, 0) :
            kind \in {"Timeout", "ConnectionError", "RequestException"}}

InitRetry ==
    /\ ThreadsIdle
    /\ spec_kind = "retry"
    /\ max_pages = 1
    /\ max_depth = 0
    /\ max_retries \in 0..RetryBound
    /\ FrontierIdle
    /\ BucketIdle
    /\ CrawlIdle

\* self._fetch_with_retry(url), the first call on the client; outs holds
\* what each GET brings.  last_fetch keeps the call: its result, its log,
\* and in seen what the GETs it sent brought.
FetchWithRetryCall ==
    /\ spec_kind = "retry"
    /\ last_fetch = None
    /\ \E url \in ClientURLs,
          outs \in [1..(RetryBound + 2) -> RetryOutcomes] :
        LET f == fetch_with_retry(url, 0, outs, http_stats, NoException, <<>>)
        IN
        /\ http_stats' = f.stats
        /\ last_fetch' = [url |-> url, result |-> f.result,
                          response |-> f.response, log |-> f.log,
                          seen |-> SubSeq(outs, 1, Count(f.log, "GET"))]
        /\ net' = [net EXCEPT !.fetches = @ + 1,
                              !.page_gets = @ + Count(f.log, "GET")]
    /\ UNCHANGED <<config_vars, thread_vars, frontier_vars, bucket_vars, pc,
                   url_item, response, crawl_results, stats, safety, checked,
                   fetch_calls, blocked, safety_hist, report>>

NextRetry == FetchWithRetryCall

SpecRetry == InitRetry /\ [][NextRetry]_vars

\* the call of _fetch_with_retry has returned or raised
Fetched == spec_kind = "retry" /\ last_fetch # None

\* the i-th GET of the call was not the last attempt the loop allows
AttemptsRemain(i) == i - 1 < max_retries

\* the statuses that end the loop with no retry: 4xx other than 429
IsClientError(out) ==
    out.kind = "status" /\ 400 <= out.code /\ out.code < 500 /\ out.code # 429

\* C31: status classification in the fetch loop: a 200 ends the loop with
\* a success result; a 4xx other than 429 ends the loop at once with no
\* result, no exception and no further attempt; 429, 500/502/503/504 and
\* every other status lead to another attempt whenever attempts remain.
C31_StatusClassification ==
    Fetched =>
        \A i \in 1..Len(last_fetch.seen) :
            LET out == last_fetch.seen[i] IN
            out.kind = "status" =>
                /\ out.code = 200 =>
                      /\ i = Len(last_fetch.seen)
                      /\ last_fetch.result = "response"
                      /\ last_fetch.response.status_code = 200
                /\ IsClientError(out) =>
                      /\ i = Len(last_fetch.seen)
                      /\ last_fetch.result = "none"
                /\ (out.code # 200 /\ ~IsClientError(out)
                      /\ AttemptsRemain(i)) =>
                      Len(last_fetch.seen) > i


\* the statuses _handle_status_code names as server errors to retry
IsServerError(out) == out.kind = "status" /\ out.code \in {500, 502, 503, 504}

\* the log of a call that sent k + 1 GETs and slept between them
IsRetryLog(log, k) ==
    /\ Len(log) = 2 * k + 1
    /\ \A i \in 0..k : log[2 * i + 1].ev = "GET" /\ log[2 * i + 1].n = i
    /\ \A i \in 0..(k - 1) : log[2 * i + 2].ev = "sleep"

\* C32: retry/backoff: when the endpoint answers k retryable 5xx responses
\* (k <= max_retries) and then 200, the call returns exactly one successful
\* result, retries_performed increases by exactly k, and exactly k sleeps
\* happen, the i-th (i = 0..k-1) lasting 2^i seconds plus a jitter in [0, 1]
\* seconds.
C32_RetryBackoff ==
    Fetched =>
        LET seen == last_fetch.seen
            k == Len(seen) - 1
        IN
        (/\ k >= 0 /\ k <= max_retries
         /\ \A i \in 1..k : IsServerError(seen[i])
         /\ seen[k + 1].kind = "status" /\ seen[k + 1].code = 200) =>
            /\ last_fetch.result = "response"
            /\ http_stats.successful_requests = 1
            /\ http_stats.failed_requests = 0
            /\ http_stats.retries_performed = k
            /\ Count(last_fetch.log, "sleep") = k
            /\ IsRetryLog(last_fetch.log, k)
            /\ \A i \in 0..(k - 1) :
                  LET d == last_fetch.log[2 * i + 2].n IN
                  /\ d = Pow2(i) * TicksPerSecond + seen[i + 1].jitter
                  /\ Pow2(i) * TicksPerSecond <= d
                  /\ d <= (Pow2(i) + 1) * TicksPerSecond


\* the position in a log of the GET of attempt i (0 if it sent none)
GetAt(log, i) ==
    IF \E j \in 1..Len(log) : log[j].ev = "GET" /\ log[j].n = i
    THEN CHOOSE j \in 1..Len(log) : log[j].ev = "GET" /\ log[j].n = i
    ELSE 0

\* the 429 responses among what the GETs brought
Count429(seen) ==
    Cardinality({i \in 1..Len(seen) :
                   seen[i].kind = "status" /\ seen[i].code = 429})

\* C33: 429 handling: each 429 response increments rate_limited_requests
\* by exactly 1 and, when attempts remain, the next attempt starts no
\* sooner than min(Retry-After, 300) seconds later, Retry-After taken as
\* 60 when the header is absent; the 429 uses up one attempt like any
\* other retry (retries_performed counts it, and the next GET is the next
\* attempt of the loop).
C33_RateLimited ==
    Fetched =>
        LET seen == last_fetch.seen
            log == last_fetch.log
        IN
        /\ http_stats.rate_limited_requests = Count429(seen)
        /\ \A i \in 1..Len(seen) :
              (seen[i].kind = "status" /\ seen[i].code = 429
                 /\ AttemptsRemain(i)) =>
                  LET g == GetAt(log, i - 1)
                      retry_after ==
                          IF seen[i].retry_after.form = "absent"
                          THEN DefaultRetryAfter
                          ELSE seen[i].retry_after.seconds
                  IN
                  /\ Len(log) >= g + 2
                  /\ log[g + 1].ev = "sleep"
                  /\ log[g + 1].n
                       >= Min(retry_after, MaxRetryAfter) * TicksPerSecond
                  /\ log[g + 2] = Get(i, extract_domain(last_fetch.url))
                  /\ http_stats.retries_performed >= i


\* C34: a request exception that is not a network error (neither Timeout
\* nor ConnectionError), raised during an attempt, stops the retries at
\* once: no further GET and no backoff sleep follow it, whatever attempts
\* remain, and the call raises HTTPError.
C34_RequestExceptionAborts ==
    Fetched =>
        \A i \in 1..Len(last_fetch.seen) :
            last_fetch.seen[i].kind = "RequestException" =>
                /\ i = Len(last_fetch.seen)
                /\ last_fetch.result = "raise"
                /\ last_fetch.log[Len(last_fetch.log)]
                     = Get(i - 1, extract_domain(last_fetch.url))
                /\ Count(last_fetch.log, "GET") = i
                /\ Count(last_fetch.log, "sleep") = i - 1
                /\ http_stats.retries_performed = i - 1
                /\ http_stats.failed_requests = 1

\* C34 happens: the second attempt, made after a 503 and its backoff,
\* raised a request exception with an attempt left, and the call raised.
C34_Witness ==
    /\ Fetched
    /\ max_retries = 2
    /\ Len(last_fetch.seen) = 2
    /\ last_fetch.seen[1].code = 503
    /\ last_fetch.seen[2].kind = "RequestException"
    /\ last_fetch.result = "raise"
    /\ Count(last_fetch.log, "sleep") = 1


\* C35: each call of _fetch_with_retry increments exactly one of
\* successful_requests and failed_requests, by exactly 1, on every exit
\* path (success, terminal 4xx, exhaustion, abort by an exception), so
\* that their sum is the number of completed calls.
C35_OneOutcomeCounted ==
    Fetched =>
        /\ http_stats.successful_requests + http_stats.failed_requests
             = net.fetches
        /\ http_stats.successful_requests = 1
             <=> last_fetch.result = "response"
        /\ http_stats.failed_requests = 1
             <=> last_fetch.result \in {"none", "raise"}

\* C36: within one call a retry is counted and slept for only when another
\* attempt follows: the increase of retries_performed is the number of
\* GETs started minus 1, every sleep is followed by a GET, and nothing is
\* slept after the last attempt.
C36_RetriesAreFollowed ==
    Fetched =>
        LET log == last_fetch.log IN
        /\ http_stats.retries_performed = Count(log, "GET") - 1
        /\ Count(log, "sleep") = Count(log, "GET") - 1
        /\ log[Len(log)].ev = "GET"
        /\ \A j \in 1..Len(log) :
              log[j].ev = "sleep" => (j < Len(log) /\ log[j + 1].ev = "GET")


(***************************************************************************)
(* SpecLoop: the crawl loop of LegalSpider.crawl over deeper and larger    *)
(* sessions.  What _crawl_single_page does with a dequeued item is one     *)
(* step: it gives the page up (one of its three early returns), it raises  *)
(* (the per-URL handler counts the error), or it records the page and      *)
(* queues its links; which of them happens is left open, as are the links  *)
(* of a page.  Every step of the loop is followed by the next.             *)
(***************************************************************************)
LoopPages == 3          \* config.max_pages ranges over 1..LoopPages
LoopDepth == 2          \* config.max_depth ranges over 0..LoopDepth
LoopLinks == 3          \* a page holds at most LoopLinks distinct links

LoopLinkLists ==
    {l \in UNION {[1..n -> SiteURLs] : n \in 0..LoopLinks} :
        \A i, j \in 1..Len(l) : l[i] = l[j] => i = j}

InitLoop ==
    /\ ThreadsIdle
    /\ spec_kind = "loop"
    /\ max_pages \in 1..LoopPages
    /\ max_depth \in 0..LoopDepth
    /\ max_retries = MaxRetries
    /\ url_queue = NewURLQueue(max_pages * 2)
    /\ accepted = <<>>
    /\ returned = <<>>
    /\ visited_adds = [u \in NormURLs |-> 0]
    /\ last_call = [op |-> "init"]
    /\ BucketIdle
    /\ pc = "start"
    /\ CrawlNew

\* _crawl_single_page returns early: pre_crawl_check refused the URL,
\* fetch returned None, or the response is not HTML
PageSkipped ==
    /\ spec_kind = "loop"
    /\ pc = "check"
    /\ stats' = on_page_skipped(stats)
    /\ pc' = "loop"
    /\ UNCHANGED <<config_vars, thread_vars, frontier_vars, bucket_vars,
                   url_item, response, crawl_results, safety, http_stats,
                   checked, fetch_calls, blocked, net, last_fetch,
                   safety_hist, report>>

\* _crawl_single_page raises before the record is stored: `except
\* Exception` of the loop counts the error
PageError ==
    /\ spec_kind = "loop"
    /\ pc = "check"
    /\ stats' = on_page_error(stats)
    /\ pc' = "loop"
    /\ UNCHANGED <<config_vars, thread_vars, frontier_vars, bucket_vars,
                   url_item, response, crawl_results, safety, http_stats,
                   checked, fetch_calls, blocked, net, last_fetch,
                   safety_hist, report>>

\* _crawl_single_page on an HTML page: count it, extract the links, store
\* the record, queue the links
PageRecorded ==
    /\ spec_kind = "loop"
    /\ pc = "check"
    /\ \E links \in LoopLinkLists :
        /\ stats' = [stats EXCEPT !.pages_crawled = @ + 1,
                                  !.links_discovered = @ + Len(links)]
        /\ crawl_results' =
             (url_item.url :> [depth |-> url_item.depth,
                               parent_url |-> url_item.parent_url,
                               status_code |-> 200,
                               content_type |-> "text/html",
                               links_found |-> Len(links)]) @@ crawl_results
        /\ url_queue' = enqueue_links(url_queue, links, url_item)
    /\ pc' = "loop"
    /\ UNCHANGED <<config_vars, thread_vars, frontier_hist, bucket_vars,
                   url_item, response, safety, http_stats, checked,
                   fetch_calls, blocked, net, last_fetch, safety_hist,
                   report>>

NextLoop ==
    Start \/ Dequeue \/ Finish \/ PageSkipped \/ PageError \/ PageRecorded

\* crawl() goes on running, and each call of _crawl_single_page returns
SpecLoop == InitLoop /\ [][NextLoop]_vars /\ WF_vars(NextLoop)

\* the depths of the queued items, front to back
QueueDepths == [i \in 1..Len(url_queue.queue) |-> url_queue.queue[i].depth]

\* a sequence of numbers that never decreases
NonDecreasing(ds) == \A i, j \in 1..Len(ds) : i <= j => ds[i] <= ds[j]

\* C37: the crawl visits in breadth-first order: over a whole session the
\* depths of the items get_next_url returns never decrease from one item
\* to the next, and in every reachable state the pending queue is sorted
\* by non-decreasing depth (and no queued item is shallower than the item
\* returned last).
C37_BreadthFirst ==
    /\ [](NonDecreasing(QueueDepths))
    /\ []((url_item # None /\ url_queue.queue # <<>>) =>
            url_item.depth <= Head(url_queue.queue).depth)
    /\ [][(pc = "loop" /\ pc' = "check" /\ url_item # None) =>
            url_item.depth <= url_item'.depth]_vars

\* C37 happens: an item of depth 2, queued by a page of depth 1, stands in
\* the queue behind an item of depth 1 that was queued before it.
C37_Witness ==
    /\ pc = "loop"
    /\ url_item # None
    /\ url_item.depth = 1
    /\ Len(url_queue.queue) >= 2
    /\ url_queue.queue[1].depth = 1
    /\ url_queue.queue[Len(url_queue.queue)].depth = 2
    /\ url_queue.queue[Len(url_queue.queue)].parent_url = url_item.url


\* the seed of the session: the start URL as add_url normalizes it
IsSeed(item) == item.url = normalize_url(start_url) /\ item.depth = 0

\* C38: parent linkage: in every reachable state, each frontier item other
\* than the seed has a parent_url that is a key of crawl_results, and its
\* depth is the recorded depth of that parent plus 1.
C38_ParentLinkage ==
    \A i \in 1..Len(url_queue.queue) :
        LET item == url_queue.queue[i] IN
        ~IsSeed(item) =>
            /\ item.parent_url # None
            /\ item.parent_url \in DOMAIN crawl_results
            /\ item.depth = crawl_results[item.parent_url].depth + 1

\* C38 happens: the queue holds an item of depth 1 whose parent is the
\* recorded seed and behind it an item of depth 2 whose parent is a
\* recorded page of depth 1.
C38_Witness ==
    /\ Len(url_queue.queue) >= 2
    /\ url_queue.queue[1].depth = 1
    /\ url_queue.queue[1].parent_url = normalize_url(start_url)
    /\ url_queue.queue[Len(url_queue.queue)].depth = 2
    /\ url_queue.queue[Len(url_queue.queue)].parent_url # None
    /\ url_queue.queue[Len(url_queue.queue)].parent_url \in DOMAIN crawl_results
    /\ crawl_results[url_queue.queue[Len(url_queue.queue)].parent_url].depth = 1


\* the iterations of the while loop of crawl() that have ended: each ends
\* in one of the three counters
Iterations ==
    stats.pages_crawled + stats.pages_skipped + stats.errors_encountered

\* the most iterations a session can make: the seed, and what the pages
\* recorded before the last one can have queued
IterationBound == 1 + (max_pages - 1) * 2 * max_pages

InitRateThreads ==
    /\ spec_kind = "rate_threads"
    /\ max_pages = 1
    /\ max_depth = 0
    /\ max_retries = MaxRetries
    /\ FrontierIdle
    /\ BucketIdle
    /\ CrawlIdle
    /\ heap = <<>>
    /\ bucket_ids = <<>>
    /\ threads = [t \in Threads |-> NewThread]

NextRateThreads ==
    \/ ThreadsTick
    \/ \E t \in Threads : CallWaitIfNeeded(t) \/ WaitLoopStep(t)

SpecRateThreads == InitRateThreads /\ [][NextRateThreads]_vars

\* the units the calls of all threads took for a domain
RECURSIVE GrantedFor(_, _)
GrantedFor(ts, domain) ==
    IF ts = {} THEN 0
    ELSE LET t == CHOOSE x \in ts : TRUE IN
         threads[t].grants[domain] + GrantedFor(ts \ {t}, domain)

\* C40: rate bound of the token bucket: as long as a domain's bucket is
\* not replaced by set_domain_rate, over any time window of length T the
\* successful single-token consumes on that domain are at most capacity +
\* rate * T; here for the windows that begin when the limiter is made.
C40_RateBound ==
    \A domain \in LimiterDomains :
        GrantedFor(Threads, domain)
            <= Units(BurstCapacity) + requests_per_second * now

====
